---- MODULE Spec2Model ----
(***************************************************************************)
(* A model of lesomnus/channel-cpp: bounded_channel<T, Cap> (zero-capacity,*)
(* bounded and unbounded), its waiter queues, the blocking operations with *)
(* their stop_token bridge, and select.                                    *)
(*                                                                         *)
(* Every thread that is inside a channel member function holds that        *)
(* channel's mutex_ from the entry to the return (or to the registration   *)
(* of its waiter), so a member function is followed in a few steps: the    *)
(* entry, one step per round of each loop over a waiter queue, and the     *)
(* return.  need_abort of a select waiter locks the select's ctx->mutex    *)
(* and is a step of its own.                                               *)
(***************************************************************************)
EXTENDS Integers, Sequences, FiniteSets, Bags, TLC

\* ------------------------------------------------------------------ bounds
\* Distinct values the senders may issue (1..MaxVal, in the order issued).
MaxVal == 3
\* Member-function calls each worker thread may make.
MaxOps == 2
\* Largest bounded capacity the initial states range over.
MaxCap == 2

\* inline constexpr std::size_t unbounded_capacity = -1;
unbounded_capacity == -1

Workers == {"w1", "w2", "w3"}
SelThread == "sel"
Threads == Workers \cup {SelThread}
Chans == {"c1", "c2"}
NoThread == "none"

\* A default-constructed T (T v; T value;) and the content of a dead object.
DefaultT == 0
Garbage == -7

VARIABLES
    Cap,                \* template parameter Cap of each channel
    NDEBUG,             \* whether the build compiles assert() away
    aborted,            \* the process was ended by abort() or std::terminate()
    mutex_,             \* owner of each channel's mutex_, or NoThread
    is_closed_,
    buffer_,
    hanged_recv_tasks,
    hanged_send_tasks,
    pc,                 \* where each thread is
    call,               \* the member function a thread is in: [name, chan], and
                        \* for close and size the waiters live when it began,
                        \* for close whether the select was suspended then
    seq,                \* calls a thread has begun (names its waiter records)
    value,              \* the thread's value argument (T& value / U&& value)
    ec,                 \* the thread's std::error_code& ec
    ret,                \* what try_recv_ / try_send_ returned to the thread
    done,               \* the local std::mutex done of recv / send_ / select
    task_stop,          \* task_stop_source.stop_requested() of the current call
    size_ret,           \* what size() returned to the thread
    na,                 \* result of the select waiter's need_abort just called
    stop_requested,     \* the stop_token handed to the thread's calls
    on_cancel,          \* the std::stop_callback on_cancel of the current call
    ctx_mutex,          \* owner of ctx->mutex, or NoThread
    is_done,            \* ctx->is_done
    ops,                \* the operations handed to select
    fallback,           \* whether select was given a fallback
    op_i,               \* index of the operation select is at
    attempted,          \* operations whose try_execute was called
    next_val,           \* next value a sender issues
    recvd,              \* values handed to receivers, in the order of the handoffs
    sent_ok,            \* values whose send reported success
    calls               \* bag of completion-callback invocations [t, n, ok]

chanVars == <<mutex_, is_closed_, buffer_, hanged_recv_tasks, hanged_send_tasks>>
waitVars == <<value, ec, done, task_stop>>
tokVars == <<stop_requested, on_cancel>>
selVars == <<ctx_mutex, is_done, op_i, attempted>>
histVars == <<next_val, recvd, sent_ok, calls>>
cfgVars == <<Cap, NDEBUG, ops, fallback>>
locVars == <<call, seq, size_ret>>
vars == <<Cap, NDEBUG, aborted, mutex_, is_closed_, buffer_, hanged_recv_tasks,
          hanged_send_tasks, pc, call, seq, value, ec, ret, size_ret, done,
          task_stop, na, stop_requested, on_cancel, ctx_mutex, is_done, ops, fallback, op_i,
          attempted, next_val, recvd, sent_ok, calls>>

\* pop() that removes the newest record of a queue instead of the oldest.
Pop_drops_back(q) == SubSeq(q, 1, Len(q) - 1)

\* ----------------------------------------------------------------- helpers
Pop(q) == Tail(q)
Range(f) == {f[i] : i \in DOMAIN f}

\* std::mutex::unlock() of a local mutex done, which the waiting thread locked
\* and another thread unlocks (the builds' mutexes do not check the owner).
\* Unlocking a mutex that is not locked is recorded as "double".
Unlock(d) == IF d = "locked" THEN "unlocked" ELSE "double"

\* The waiter record of a blocking recv / send_ of thread t (its n-th call).
BlockTask(t) == [kind |-> "block", who |-> t, n |-> seq[t], val |-> DefaultT]
\* The waiter record of recv_sched / send_sched_ called by a worker with the
\* constant-false need_abort.
SchedTask(t, v) == [kind |-> "sched", who |-> t, n |-> seq[t], val |-> v]
\* The waiter record of the i-th operation of select.
SelectTask(i, v) == [kind |-> "select", who |-> SelThread, n |-> i, val |-> v]

\* task.need_abort() of a blocking waiter: [task_token] { return
\* task_token.stop_requested(); }.  The stop source of a call that has returned
\* stays stop-requested.
need_abort_block(h) == h.n # seq[h.who] \/ task_stop[h.who]

\* task.need_abort() of a waiter that is not a select waiter.
need_abort_plain(h) ==
    IF h.kind = "block" THEN need_abort_block(h) ELSE FALSE

\* Whether a waiter record would still be served: need_abort() would return
\* false.  (For a select waiter that call also commits the select.)
Live(h) ==
    CASE h.kind = "block" -> ~need_abort_block(h)
      [] h.kind = "sched" -> TRUE
      [] h.kind = "select" -> ~is_done

\* The result of need_abort() for the waiter at the head of a queue, once the
\* thread has it: computed in place, or left in na by the select's need_abort.
HeadAbort(t, h) == IF h.kind = "select" THEN na[t] = "abort" ELSE need_abort_plain(h)
\* The thread can go on with the head h: it needs no call of the select's
\* need_abort, or has made it.
HeadKnown(t, h) == h.kind # "select" \/ na[t] # "none"

Alive == ~aborted

\* pc of a thread that has returned from a channel member function.
Back(t) ==
    IF t # SelThread THEN "idle"
    ELSE IF call[t].name \in {"try_recv", "try_send"} THEN "try_execute"
    ELSE "scheduled"

\* One invocation of a completion callback: of which waiter (thread t, its n-th
\* call; for select its n-th operation), with which ok, and whether select had
\* already returned (the callback and the value it reads live in select's frame).
CallRec(t, n, ok) ==
    [t |-> t, n |-> n, ok |-> ok,
     late |-> (t = SelThread /\ pc[SelThread] = "returned")]
Invoke(t, n, ok) == calls (+) SetToBag({CallRec(t, n, ok)})

\* How often the completion callback of waiter n of thread t was invoked with ok.
Invoked(t, n, ok) ==
    CopiesIn([t |-> t, n |-> n, ok |-> ok, late |-> FALSE], calls)
        + CopiesIn([t |-> t, n |-> n, ok |-> ok, late |-> TRUE], calls)

\* How often the completion callback of the i-th operation of select was invoked.
OpInvoked(i) == Invoked(SelThread, i, TRUE) + Invoked(SelThread, i, FALSE)

\* Invocations of completion callbacks of the select, over all its operations.
SelectInvocations ==
    LET RECURSIVE upto(_)
        upto(i) == IF i = 0 THEN 0 ELSE OpInvoked(i) + upto(i - 1)
    IN upto(Len(ops))

\* The name a thread's current call gives its waiter and its callback.
MyN(t) == IF t = SelThread THEN op_i ELSE seq[t]

allButAborted ==
    <<Cap, NDEBUG, mutex_, is_closed_, buffer_, hanged_recv_tasks,
      hanged_send_tasks, pc, call, seq, value, ec, ret, size_ret, done,
      task_stop, na, stop_requested, on_cancel, ctx_mutex, is_done, ops, fallback, op_i,
      attempted, next_val, recvd, sent_ok, calls>>

\* assert() failed in a build with assertions, or an exception left a noexcept
\* function or a thread: the process ends.
Abort == aborted' = TRUE /\ UNCHANGED allButAborted

\* ------------------------------------------------------ waiter callbacks
\* task.execute(ok, std::move(src)) of a record of hanged_recv_tasks.
\*   blocking recv (lines 251-266): request_stop on the task's stop source, then
\*     value = src and ec = ok, or ec = closed; done.unlock().
\*   recv_sched (lines 290-292): the caller's on_settled(ok, src).
ExecRecv(h, ok, src) ==
    /\ task_stop' = IF h.kind = "block" THEN [task_stop EXCEPT ![h.who] = TRUE]
                    ELSE task_stop
    /\ value' = IF h.kind = "block" /\ ok THEN [value EXCEPT ![h.who] = src]
                ELSE value
    /\ ec' = IF h.kind = "block"
             THEN [ec EXCEPT ![h.who] = IF ok THEN "ok" ELSE "closed"]
             ELSE ec
    /\ done' = IF h.kind = "block" THEN [done EXCEPT ![h.who] = Unlock(@)]
               ELSE done
    /\ calls' = Invoke(h.who, h.n, ok)
    /\ recvd' = IF ok THEN Append(recvd, src) ELSE recvd

\* The values task.execute(true, dst) of a record of hanged_send_tasks can move
\* into dst.  A blocking sender is suspended in send_, so its value is alive.
\* send_sched_ captures the value by reference ([&value, ...], line 530); for a
\* select operation that is value_ of the operation object in select's frame,
\* which is gone once select has returned.
SendVals(h) ==
    IF h.kind = "block" THEN {value[h.who]}
    ELSE IF h.kind = "select" /\ pc[SelThread] = "returned" THEN {h.val, Garbage}
    ELSE {h.val}

\* task.execute(ok, dst) of a record of hanged_send_tasks, but for the write to
\* dst.
\*   blocking send_ (lines 482-497): request_stop, ec = ok or closed,
\*     done.unlock().
\*   send_sched_ (lines 530-536): the caller's on_settled(ok).
ExecSend(h, ok) ==
    /\ task_stop' = IF h.kind = "block" THEN [task_stop EXCEPT ![h.who] = TRUE]
                    ELSE task_stop
    /\ ec' = IF h.kind = "block"
             THEN [ec EXCEPT ![h.who] = IF ok THEN "ok" ELSE "closed"]
             ELSE ec
    /\ done' = IF h.kind = "block" THEN [done EXCEPT ![h.who] = Unlock(@)]
               ELSE done
    /\ calls' = Invoke(h.who, h.n, ok)
    /\ sent_ok' = IF ok /\ h.kind # "block" THEN sent_ok \cup {h.val} ELSE sent_ok

\* ------------------------------------------------- inside a member function
LoopPcs == {"try_send_", "drain", "handoff", "close_r", "close_s", "size_r", "size_s"}

\* The waiter queue whose head the thread examines at its pc.
LoopQueue(t) ==
    IF pc[t] \in {"try_send_", "close_r", "size_r"}
    THEN hanged_recv_tasks[call[t].chan]
    ELSE hanged_send_tasks[call[t].chan]

\* The assert() at the thread's pc fails (a build with assertions only).
\*   try_recv_: assert(Cap == 0), line 357
\*   drain:     assert(buffer_.size() < Cap), line 338
\*   handoff:   assert(buffer_.size() >= Cap), line 360
\*   try_send_: assert(buffer_.empty()), line 384
AssertFails(t) ==
    LET c == call[t].chan IN
    /\ ~NDEBUG
    /\ CASE pc[t] = "try_recv_" ->
                /\ ~(Cap[c] # 0 /\ buffer_[c] # <<>>)
                /\ Cap[c] # unbounded_capacity
                /\ hanged_send_tasks[c] # <<>>
                /\ Cap[c] # 0
         [] pc[t] = "drain" ->
                hanged_send_tasks[c] # <<>> /\ ~(Len(buffer_[c]) < Cap[c])
         [] pc[t] = "handoff" ->
                hanged_send_tasks[c] # <<>> /\ ~(Len(buffer_[c]) >= Cap[c])
         [] pc[t] = "try_send_" ->
                hanged_recv_tasks[c] # <<>> /\ buffer_[c] # <<>>
         [] OTHER -> FALSE

\* Locking a std::mutex the thread already owns is undefined: the thread hangs
\* for ever, or the lock throws std::system_error, which here always leaves a
\* noexcept function (the stop_callback constructor) or the thread, and ends the
\* process.
Relock(t) ==
    \E outcome \in {"hang", "throw"} :
        IF outcome = "hang"
        THEN /\ pc' = [pc EXCEPT ![t] = "stuck"]
             /\ UNCHANGED aborted
        ELSE /\ aborted' = TRUE
             /\ UNCHANGED pc

\* try_recv_ that takes the newest value of the buffer instead of the oldest.
try_recv_takes_back(t) ==
    LET c == call[t].chan
        b == buffer_[c]
    IN
    /\ Alive /\ pc[t] = "try_recv_"
    /\ IF AssertFails(t) THEN Abort
       ELSE /\ IF Cap[c] # 0 /\ b # <<>>
               THEN /\ value' = [value EXCEPT ![t] = b[Len(b)]]
                    /\ buffer_' = [buffer_ EXCEPT ![c] = SubSeq(b, 1, Len(b) - 1)]
                    /\ recvd' = Append(recvd, b[Len(b)])
                    /\ IF Cap[c] # unbounded_capacity
                       THEN /\ pc' = [pc EXCEPT ![t] = "drain"]
                            /\ ret' = [ret EXCEPT ![t] = "none"]
                       ELSE /\ pc' = [pc EXCEPT ![t] = "recv_ret"]
                            /\ ret' = [ret EXCEPT ![t] = "true"]
               ELSE /\ IF Cap[c] # unbounded_capacity /\ hanged_send_tasks[c] # <<>>
                       THEN /\ pc' = [pc EXCEPT ![t] = "handoff"]
                            /\ ret' = [ret EXCEPT ![t] = "none"]
                       ELSE /\ pc' = [pc EXCEPT ![t] = "recv_ret"]
                            /\ ret' = [ret EXCEPT ![t] = "false"]
                    /\ UNCHANGED <<value, buffer_, recvd>>
            /\ UNCHANGED <<cfgVars, aborted, mutex_, is_closed_, hanged_recv_tasks,
                           hanged_send_tasks, locVars, ec, done, task_stop, na,
                           tokVars, selVars, next_val, sent_ok, calls>>

\* bool try_recv_(T& value), lines 326-376: up to the first loop.
try_recv_(t) ==
    LET c == call[t].chan IN
    /\ Alive /\ pc[t] = "try_recv_"
    /\ IF AssertFails(t) THEN Abort
       ELSE /\ IF Cap[c] # 0 /\ buffer_[c] # <<>>
               THEN /\ value' = [value EXCEPT ![t] = Head(buffer_[c])]
                    /\ buffer_' = [buffer_ EXCEPT ![c] = Tail(@)]
                    /\ recvd' = Append(recvd, Head(buffer_[c]))
                    /\ IF Cap[c] # unbounded_capacity
                       THEN /\ pc' = [pc EXCEPT ![t] = "drain"]
                            /\ ret' = [ret EXCEPT ![t] = "none"]
                       ELSE /\ pc' = [pc EXCEPT ![t] = "recv_ret"]
                            /\ ret' = [ret EXCEPT ![t] = "true"]
               ELSE /\ IF Cap[c] # unbounded_capacity /\ hanged_send_tasks[c] # <<>>
                       THEN /\ pc' = [pc EXCEPT ![t] = "handoff"]
                            /\ ret' = [ret EXCEPT ![t] = "none"]
                       ELSE /\ pc' = [pc EXCEPT ![t] = "recv_ret"]
                            /\ ret' = [ret EXCEPT ![t] = "false"]
                    /\ UNCHANGED <<value, buffer_, recvd>>
            /\ UNCHANGED <<cfgVars, aborted, mutex_, is_closed_, hanged_recv_tasks,
                           hanged_send_tasks, locVars, ec, done, task_stop, na,
                           tokVars, selVars, next_val, sent_ok, calls>>

\* One round of while(!hanged_send_tasks.empty()) of lines 337-348: an aborted
\* head is popped; a live head is executed into a new buffer slot and is NOT
\* popped.  A head whose need_abort stays false (send_sched with the
\* constant-false predicate) is executed again on every round; without
\* assertions the loop never ends, and the model leaves the thread spinning
\* after the second round.
try_recv_drain(t) ==
    LET c == call[t].chan
        q == hanged_send_tasks[c]
        h == Head(q)
    IN
    /\ Alive /\ pc[t] = "drain"
    /\ IF q = <<>>
       THEN /\ pc' = [pc EXCEPT ![t] = "recv_ret"]
            /\ ret' = [ret EXCEPT ![t] = "true"]
            /\ UNCHANGED <<cfgVars, aborted, chanVars, locVars, waitVars, na,
                           tokVars, selVars, histVars>>
       ELSE IF AssertFails(t) THEN Abort
       ELSE /\ HeadKnown(t, h)
            /\ na' = [na EXCEPT ![t] = "none"]
            /\ IF HeadAbort(t, h)
               THEN /\ hanged_send_tasks' = [hanged_send_tasks EXCEPT ![c] = Pop(@)]
                    /\ UNCHANGED <<buffer_, pc, ret, ec, done, task_stop, calls, sent_ok>>
               ELSE /\ \E v \in SendVals(h) :
                           buffer_' = [buffer_ EXCEPT ![c] = Append(@, v)]
                    /\ ExecSend(h, TRUE)
                    /\ ret' = [ret EXCEPT ![t] = IF h.kind = "sched" THEN "again" ELSE @]
                    /\ pc' = [pc EXCEPT ![t] =
                                IF NDEBUG /\ h.kind = "sched" /\ ret[t] = "again"
                                THEN "spin" ELSE @]
                    /\ UNCHANGED hanged_send_tasks
            /\ UNCHANGED <<cfgVars, aborted, mutex_, is_closed_, hanged_recv_tasks,
                           locVars, value, tokVars, selVars, next_val, recvd>>

\* The hand-off loop of try_recv_ without the test of task.need_abort(): the
\* head of the queue is executed whatever its state.
try_recv_handoff_serves_aborted(t) ==
    LET c == call[t].chan
        q == hanged_send_tasks[c]
        h == Head(q)
    IN
    /\ Alive /\ pc[t] = "handoff"
    /\ IF q = <<>>
       THEN /\ pc' = [pc EXCEPT ![t] = "recv_ret"]
            /\ ret' = [ret EXCEPT ![t] = "false"]
            /\ UNCHANGED <<cfgVars, aborted, chanVars, locVars, waitVars, na,
                           tokVars, selVars, histVars>>
       ELSE IF AssertFails(t) THEN Abort
       ELSE /\ HeadKnown(t, h)
            /\ na' = [na EXCEPT ![t] = "none"]
            /\ hanged_send_tasks' = [hanged_send_tasks EXCEPT ![c] = Pop(@)]
            /\ \E v \in SendVals(h) :
                   /\ value' = [value EXCEPT ![t] = v]
                   /\ recvd' = Append(recvd, v)
            /\ ExecSend(h, TRUE)
            /\ pc' = [pc EXCEPT ![t] = "recv_ret"]
            /\ ret' = [ret EXCEPT ![t] = "true"]
            /\ UNCHANGED <<cfgVars, aborted, mutex_, is_closed_, buffer_,
                           hanged_recv_tasks, locVars, tokVars, selVars, next_val>>

\* One round of while(!hanged_send_tasks.empty()) of lines 359-371: the direct
\* handoff from a hanging sender.
try_recv_handoff(t) ==
    LET c == call[t].chan
        q == hanged_send_tasks[c]
        h == Head(q)
    IN
    /\ Alive /\ pc[t] = "handoff"
    /\ IF q = <<>>
       THEN /\ pc' = [pc EXCEPT ![t] = "recv_ret"]
            /\ ret' = [ret EXCEPT ![t] = "false"]
            /\ UNCHANGED <<cfgVars, aborted, chanVars, locVars, waitVars, na,
                           tokVars, selVars, histVars>>
       ELSE IF AssertFails(t) THEN Abort
       ELSE /\ HeadKnown(t, h)
            /\ na' = [na EXCEPT ![t] = "none"]
            /\ hanged_send_tasks' = [hanged_send_tasks EXCEPT ![c] = Pop(@)]
            /\ IF HeadAbort(t, h)
               THEN UNCHANGED <<pc, ret, value, ec, done, task_stop, calls, sent_ok, recvd>>
               ELSE /\ \E v \in SendVals(h) :
                           /\ value' = [value EXCEPT ![t] = v]
                           /\ recvd' = Append(recvd, v)
                    /\ ExecSend(h, TRUE)
                    /\ pc' = [pc EXCEPT ![t] = "recv_ret"]
                    /\ ret' = [ret EXCEPT ![t] = "true"]
            /\ UNCHANGED <<cfgVars, aborted, mutex_, is_closed_, buffer_,
                           hanged_recv_tasks, locVars, tokVars, selVars, next_val>>

\* try_send_ with the "return true" after the handoff to a hanging receiver
\* left out: the value goes on into the buffer as well.
try_send_falls_through(t) ==
    LET c == call[t].chan
        q == hanged_recv_tasks[c]
        h == Head(q)
        room == Cap[c] = unbounded_capacity \/ Len(buffer_[c]) < Cap[c]
    IN
    /\ Alive /\ pc[t] = "try_send_"
    /\ IF q # <<>>
       THEN /\ HeadKnown(t, h)
            /\ na' = [na EXCEPT ![t] = "none"]
            /\ hanged_recv_tasks' = [hanged_recv_tasks EXCEPT ![c] = Pop(@)]
            /\ IF HeadAbort(t, h)
               THEN UNCHANGED <<pc, ret, waitVars, calls, recvd, buffer_>>
               ELSE /\ ExecRecv(h, TRUE, value[t])
                    /\ pc' = [pc EXCEPT ![t] = "send_ret"]
                    /\ ret' = [ret EXCEPT ![t] = "true"]
                    /\ buffer_' = IF room THEN [buffer_ EXCEPT ![c] = Append(@, value[t])]
                                  ELSE buffer_
            /\ UNCHANGED <<cfgVars, aborted, mutex_, is_closed_,
                           hanged_send_tasks, locVars, tokVars, selVars,
                           next_val, sent_ok>>
       ELSE /\ pc' = [pc EXCEPT ![t] = "send_ret"]
            /\ ret' = [ret EXCEPT ![t] = IF Cap[c] # 0 /\ room THEN "true" ELSE "false"]
            /\ buffer_' = IF Cap[c] # 0 /\ room
                          THEN [buffer_ EXCEPT ![c] = Append(@, value[t])]
                          ELSE buffer_
            /\ UNCHANGED <<cfgVars, aborted, mutex_, is_closed_, hanged_recv_tasks,
                           hanged_send_tasks, locVars, waitVars, na, tokVars,
                           selVars, histVars>>

\* try_send_ without "if constexpr(Cap == 0) return false": with no receiver
\* waiting the value is put into the buffer of a zero-capacity channel.
try_send_buffers_at_zero(t) ==
    LET c == call[t].chan
        q == hanged_recv_tasks[c]
        h == Head(q)
    IN
    /\ Alive /\ pc[t] = "try_send_"
    /\ IF q # <<>>
       THEN /\ HeadKnown(t, h)
            /\ na' = [na EXCEPT ![t] = "none"]
            /\ hanged_recv_tasks' = [hanged_recv_tasks EXCEPT ![c] = Pop(@)]
            /\ IF HeadAbort(t, h)
               THEN UNCHANGED <<pc, ret, waitVars, calls, recvd>>
               ELSE /\ ExecRecv(h, TRUE, value[t])
                    /\ pc' = [pc EXCEPT ![t] = "send_ret"]
                    /\ ret' = [ret EXCEPT ![t] = "true"]
            /\ UNCHANGED <<cfgVars, aborted, mutex_, is_closed_, buffer_,
                           hanged_send_tasks, locVars, tokVars, selVars,
                           next_val, sent_ok>>
       ELSE /\ pc' = [pc EXCEPT ![t] = "send_ret"]
            /\ IF Cap[c] \notin {0, unbounded_capacity} /\ Len(buffer_[c]) >= Cap[c]
               THEN /\ ret' = [ret EXCEPT ![t] = "false"]
                    /\ UNCHANGED buffer_
               ELSE /\ ret' = [ret EXCEPT ![t] = "true"]
                    /\ buffer_' = [buffer_ EXCEPT ![c] = Append(@, value[t])]
            /\ UNCHANGED <<cfgVars, aborted, mutex_, is_closed_, hanged_recv_tasks,
                           hanged_send_tasks, locVars, waitVars, na, tokVars,
                           selVars, histVars>>

\* try_send_ with the buffer of an unbounded channel taken to be full once it
\* holds one value.
try_send_full_at_one(t) ==
    LET c == call[t].chan
        q == hanged_recv_tasks[c]
        h == Head(q)
    IN
    /\ Alive /\ pc[t] = "try_send_"
    /\ IF q # <<>>
       THEN /\ HeadKnown(t, h)
            /\ na' = [na EXCEPT ![t] = "none"]
            /\ hanged_recv_tasks' = [hanged_recv_tasks EXCEPT ![c] = Pop(@)]
            /\ IF HeadAbort(t, h)
               THEN UNCHANGED <<pc, ret, waitVars, calls, recvd>>
               ELSE /\ ExecRecv(h, TRUE, value[t])
                    /\ pc' = [pc EXCEPT ![t] = "send_ret"]
                    /\ ret' = [ret EXCEPT ![t] = "true"]
            /\ UNCHANGED <<cfgVars, aborted, mutex_, is_closed_, buffer_,
                           hanged_send_tasks, locVars, tokVars, selVars,
                           next_val, sent_ok>>
       ELSE /\ pc' = [pc EXCEPT ![t] = "send_ret"]
            /\ IF Cap[c] = 0 \/ Len(buffer_[c]) >= 1
               THEN /\ ret' = [ret EXCEPT ![t] = "false"]
                    /\ UNCHANGED buffer_
               ELSE /\ ret' = [ret EXCEPT ![t] = "true"]
                    /\ buffer_' = [buffer_ EXCEPT ![c] = Append(@, value[t])]
            /\ UNCHANGED <<cfgVars, aborted, mutex_, is_closed_, hanged_recv_tasks,
                           hanged_send_tasks, locVars, waitVars, na, tokVars,
                           selVars, histVars>>

\* bool try_send_(U&& value), lines 380-411: one round of
\* while(!hanged_recv_tasks.empty()), or the end of the function.
try_send_(t) ==
    LET c == call[t].chan
        q == hanged_recv_tasks[c]
        h == Head(q)
    IN
    /\ Alive /\ pc[t] = "try_send_"
    /\ IF q # <<>>
       THEN IF AssertFails(t) THEN Abort
            ELSE /\ HeadKnown(t, h)
                 /\ na' = [na EXCEPT ![t] = "none"]
                 /\ hanged_recv_tasks' = [hanged_recv_tasks EXCEPT ![c] = Pop(@)]
                 /\ IF HeadAbort(t, h)
                    THEN UNCHANGED <<pc, ret, waitVars, calls, recvd>>
                    ELSE /\ ExecRecv(h, TRUE, value[t])
                         /\ pc' = [pc EXCEPT ![t] = "send_ret"]
                         /\ ret' = [ret EXCEPT ![t] = "true"]
                 /\ UNCHANGED <<cfgVars, aborted, mutex_, is_closed_, buffer_,
                                hanged_send_tasks, locVars, tokVars, selVars,
                                next_val, sent_ok>>
       ELSE /\ pc' = [pc EXCEPT ![t] = "send_ret"]
            /\ IF Cap[c] = 0
               THEN /\ ret' = [ret EXCEPT ![t] = "false"]
                    /\ UNCHANGED buffer_
               ELSE IF Cap[c] # unbounded_capacity /\ Len(buffer_[c]) >= Cap[c]
               THEN /\ ret' = [ret EXCEPT ![t] = "false"]
                    /\ UNCHANGED buffer_
               ELSE /\ ret' = [ret EXCEPT ![t] = "true"]
                    /\ buffer_' = [buffer_ EXCEPT ![c] = Append(@, value[t])]
            /\ UNCHANGED <<cfgVars, aborted, mutex_, is_closed_, hanged_recv_tasks,
                           hanged_send_tasks, locVars, waitVars, na, tokVars,
                           selVars, histVars>>

\* ------------------------------------------------------------- entries
\* The head of the receive functions without recv's test of its token.
EnterRecv_ignores_token(t, c, name) ==
    /\ mutex_[c] = NoThread
    /\ mutex_' = [mutex_ EXCEPT ![c] = t]
    /\ call' = [call EXCEPT ![t] = [name |-> name, chan |-> c, live |-> {}, susp |-> FALSE]]
    /\ value' = [value EXCEPT ![t] = DefaultT]
    /\ IF is_closed_[c]
       THEN /\ ret' = [ret EXCEPT ![t] = "closed"]
            /\ pc' = [pc EXCEPT ![t] = "recv_ret"]
       ELSE /\ ret' = [ret EXCEPT ![t] = "none"]
            /\ pc' = [pc EXCEPT ![t] = "try_recv_"]

\* recv, try_recv and recv_sched that register or give up without calling
\* try_recv_ first.
EnterRecv_never_tries(t, c, name) ==
    /\ mutex_[c] = NoThread
    /\ mutex_' = [mutex_ EXCEPT ![c] = t]
    /\ call' = [call EXCEPT ![t] = [name |-> name, chan |-> c, live |-> {}, susp |-> FALSE]]
    /\ value' = [value EXCEPT ![t] = DefaultT]
    /\ pc' = [pc EXCEPT ![t] = "recv_ret"]
    /\ IF name = "recv" /\ stop_requested[t]
       THEN ret' = [ret EXCEPT ![t] = "canceled"]
       ELSE IF is_closed_[c]
       THEN ret' = [ret EXCEPT ![t] = "closed"]
       ELSE ret' = [ret EXCEPT ![t] = "false"]

\* The head of try_recv (lines 200-202), recv (lines 212-222) and recv_sched
\* (lines 276-283): lock mutex_, then the checks made before try_recv_.
EnterRecv(t, c, name) ==
    /\ mutex_[c] = NoThread
    /\ mutex_' = [mutex_ EXCEPT ![c] = t]
    /\ call' = [call EXCEPT ![t] = [name |-> name, chan |-> c, live |-> {}, susp |-> FALSE]]
    /\ value' = [value EXCEPT ![t] = DefaultT]
    /\ IF name = "recv" /\ stop_requested[t]
       THEN /\ ret' = [ret EXCEPT ![t] = "canceled"]
            /\ pc' = [pc EXCEPT ![t] = "recv_ret"]
       ELSE IF is_closed_[c]
       THEN /\ ret' = [ret EXCEPT ![t] = "closed"]
            /\ pc' = [pc EXCEPT ![t] = "recv_ret"]
       ELSE /\ ret' = [ret EXCEPT ![t] = "none"]
            /\ pc' = [pc EXCEPT ![t] = "try_recv_"]

\* The head of the send functions without their is_closed_ check.
EnterSend_ignores_closed(t, c, name, v) ==
    /\ mutex_[c] = NoThread
    /\ mutex_' = [mutex_ EXCEPT ![c] = t]
    /\ call' = [call EXCEPT ![t] = [name |-> name, chan |-> c, live |-> {}, susp |-> FALSE]]
    /\ value' = [value EXCEPT ![t] = v]
    /\ IF name = "send" /\ stop_requested[t]
       THEN /\ ret' = [ret EXCEPT ![t] = "canceled"]
            /\ pc' = [pc EXCEPT ![t] = "send_ret"]
       ELSE IF name = "send_sched" /\ Cap[c] # unbounded_capacity /\ Cap[c] # 0
       THEN /\ ret' = [ret EXCEPT ![t] = "false"]
            /\ pc' = [pc EXCEPT ![t] = "send_ret"]
       ELSE /\ ret' = [ret EXCEPT ![t] = "none"]
            /\ pc' = [pc EXCEPT ![t] = "try_send_"]

\* The head of try_send_(value, ec) (lines 416-419), send_ (lines 437-447) and
\* send_sched_ (lines 510-526).  send_sched_ calls try_send_ only for
\* Cap == unbounded_capacity and Cap == 0; for a bounded capacity it goes
\* straight to the registration of the waiter.
EnterSend(t, c, name, v) ==
    /\ mutex_[c] = NoThread
    /\ mutex_' = [mutex_ EXCEPT ![c] = t]
    /\ call' = [call EXCEPT ![t] = [name |-> name, chan |-> c, live |-> {}, susp |-> FALSE]]
    /\ value' = [value EXCEPT ![t] = v]
    /\ IF name = "send" /\ stop_requested[t]
       THEN /\ ret' = [ret EXCEPT ![t] = "canceled"]
            /\ pc' = [pc EXCEPT ![t] = "send_ret"]
       ELSE IF is_closed_[c]
       THEN /\ ret' = [ret EXCEPT ![t] = "closed"]
            /\ pc' = [pc EXCEPT ![t] = "send_ret"]
       ELSE IF name = "send_sched" /\ Cap[c] # unbounded_capacity /\ Cap[c] # 0
       THEN /\ ret' = [ret EXCEPT ![t] = "false"]
            /\ pc' = [pc EXCEPT ![t] = "send_ret"]
       ELSE /\ ret' = [ret EXCEPT ![t] = "none"]
            /\ pc' = [pc EXCEPT ![t] = "try_send_"]

\* A worker thread is between two calls and may make another.
Ready(t) == Alive /\ t \in Workers /\ pc[t] = "idle" /\ seq[t] < MaxOps

WorkerCallRecv(t, c, name) ==
    /\ Ready(t)
    /\ seq' = [seq EXCEPT ![t] = @ + 1]
    /\ EnterRecv(t, c, name)
    /\ UNCHANGED <<cfgVars, aborted, is_closed_, buffer_, hanged_recv_tasks,
                   hanged_send_tasks, ec, size_ret, done, task_stop, na, tokVars,
                   selVars, histVars>>

WorkerCallSend(t, c, name) ==
    /\ Ready(t)
    /\ next_val <= MaxVal
    /\ next_val' = next_val + 1
    /\ seq' = [seq EXCEPT ![t] = @ + 1]
    /\ EnterSend(t, c, name, next_val)
    /\ UNCHANGED <<cfgVars, aborted, is_closed_, buffer_, hanged_recv_tasks,
                   hanged_send_tasks, ec, size_ret, done, task_stop, na, tokVars,
                   selVars, recvd, sent_ok, calls>>

\* chan.try_recv(value, ec)
try_recv(t, c) == WorkerCallRecv(t, c, "try_recv")
\* chan.recv(token, value, ec)
recv(t, c) == WorkerCallRecv(t, c, "recv")
\* chan.recv_sched(on_settled): need_abort is [] { return false; }
recv_sched(t, c) == WorkerCallRecv(t, c, "recv_sched")
\* chan.try_send(value, ec)
try_send(t, c) == WorkerCallSend(t, c, "try_send")
\* chan.send(token, value, ec)
send_(t, c) == WorkerCallSend(t, c, "send")
\* chan.send_sched(value, on_settled): need_abort is [] { return false; }
send_sched_(t, c) == WorkerCallSend(t, c, "send_sched")

\* The waiters of a channel that are live: need_abort() would return false.
LiveWaiters(c) ==
    {h \in Range(hanged_recv_tasks[c]) \cup Range(hanged_send_tasks[c]) : Live(h)}

\* close that flips is_closed_ instead of setting it.
close_toggles(t, c) ==
    /\ Ready(t)
    /\ mutex_[c] = NoThread
    /\ mutex_' = [mutex_ EXCEPT ![c] = t]
    /\ is_closed_' = [is_closed_ EXCEPT ![c] = ~@]
    /\ seq' = [seq EXCEPT ![t] = @ + 1]
    /\ call' = [call EXCEPT ![t] = [name |-> "close", chan |-> c,
                                      live |-> LiveWaiters(c),
                                      susp |-> pc[SelThread] = "sel_wait"]]
    /\ pc' = [pc EXCEPT ![t] = "close_r"]
    /\ UNCHANGED <<cfgVars, aborted, buffer_, hanged_recv_tasks, hanged_send_tasks,
                   size_ret, waitVars, ret, na, tokVars, selVars, histVars>>

\* void close(), lines 175-178
close(t, c) ==
    /\ Ready(t)
    /\ mutex_[c] = NoThread
    /\ mutex_' = [mutex_ EXCEPT ![c] = t]
    /\ is_closed_' = [is_closed_ EXCEPT ![c] = TRUE]
    /\ seq' = [seq EXCEPT ![t] = @ + 1]
    /\ call' = [call EXCEPT ![t] = [name |-> "close", chan |-> c,
                                      live |-> LiveWaiters(c),
                                      susp |-> pc[SelThread] = "sel_wait"]]
    /\ pc' = [pc EXCEPT ![t] = "close_r"]
    /\ UNCHANGED <<cfgVars, aborted, buffer_, hanged_recv_tasks, hanged_send_tasks,
                   size_ret, waitVars, ret, na, tokVars, selVars, histVars>>

\* std::intmax_t size() const, lines 146-147
size(t, c) ==
    /\ Ready(t)
    /\ mutex_[c] = NoThread
    /\ mutex_' = [mutex_ EXCEPT ![c] = t]
    /\ seq' = [seq EXCEPT ![t] = @ + 1]
    /\ call' = [call EXCEPT ![t] = [name |-> "size", chan |-> c,
                                      live |-> LiveWaiters(c), susp |-> FALSE]]
    /\ pc' = [pc EXCEPT ![t] = "size_r"]
    /\ UNCHANGED <<cfgVars, aborted, is_closed_, buffer_, hanged_recv_tasks,
                   hanged_send_tasks, size_ret, waitVars, ret, na, tokVars,
                   selVars, histVars>>

\* ------------------------------------------------------------- returns
\* The part of recv (lines 229-270) and of send_ (lines 460-501) that suspends
\* the caller: done.lock(), a fresh task_stop_source, the stop_callback
\* on_cancel.  If the token is already stop-requested, the constructor of
\* on_cancel runs the callback at once on this thread, and the callback locks
\* mutex_, which this thread holds.
Suspend(t, c) ==
    IF stop_requested[t]
    THEN /\ Relock(t)
         /\ UNCHANGED <<mutex_, done, task_stop, on_cancel>>
    ELSE /\ done' = [done EXCEPT ![t] = "locked"]
         /\ task_stop' = [task_stop EXCEPT ![t] = FALSE]
         /\ on_cancel' = [on_cancel EXCEPT ![t] = "registered"]
         /\ mutex_' = [mutex_ EXCEPT ![c] = NoThread]
         /\ pc' = [pc EXCEPT ![t] = "wait"]
         /\ UNCHANGED aborted

\* try_recv after try_recv_, lines 202-208
try_recv_return(t) ==
    LET c == call[t].chan IN
    /\ Alive /\ pc[t] = "recv_ret" /\ call[t].name = "try_recv"
    /\ ec' = [ec EXCEPT ![t] = CASE ret[t] = "closed" -> "closed"
                                 [] ret[t] = "true" -> "ok"
                                 [] OTHER -> "exhausted"]
    /\ mutex_' = [mutex_ EXCEPT ![c] = NoThread]
    /\ pc' = [pc EXCEPT ![t] = Back(t)]
    /\ ret' = [ret EXCEPT ![t] = "none"]
    /\ UNCHANGED <<cfgVars, aborted, is_closed_, buffer_, hanged_recv_tasks,
                   hanged_send_tasks, locVars, value, done, task_stop, na, tokVars,
                   selVars, histVars>>

\* recv after try_recv_, lines 214-270
recv_return(t) ==
    LET c == call[t].chan IN
    /\ Alive /\ pc[t] = "recv_ret" /\ call[t].name = "recv"
    /\ ret' = [ret EXCEPT ![t] = "none"]
    /\ IF ret[t] \in {"canceled", "closed", "true"}
       THEN /\ ec' = [ec EXCEPT ![t] = IF ret[t] = "true" THEN "ok" ELSE ret[t]]
            /\ mutex_' = [mutex_ EXCEPT ![c] = NoThread]
            /\ pc' = [pc EXCEPT ![t] = Back(t)]
            /\ UNCHANGED <<aborted, hanged_recv_tasks, done, task_stop, on_cancel>>
       ELSE /\ Suspend(t, c)
            /\ hanged_recv_tasks' =
                   IF stop_requested[t] THEN hanged_recv_tasks
                   ELSE [hanged_recv_tasks EXCEPT ![c] = Append(@, BlockTask(t))]
            /\ UNCHANGED ec
    /\ UNCHANGED <<cfgVars, is_closed_, buffer_, hanged_send_tasks, locVars, value,
                   na, stop_requested, selVars, histVars>>

\* The waiter record a thread registers with recv_sched / send_sched_.
MyTask(t, v) == IF t = SelThread THEN SelectTask(op_i, v) ELSE SchedTask(t, v)

\* recv_sched after try_recv_, lines 280-292
recv_sched_return(t) ==
    LET c == call[t].chan IN
    /\ Alive /\ pc[t] = "recv_ret" /\ call[t].name = "recv_sched"
    /\ ret' = [ret EXCEPT ![t] = "none"]
    /\ IF ret[t] \in {"closed", "true"}
       THEN /\ calls' = Invoke(t, MyN(t), ret[t] = "true")
            /\ UNCHANGED hanged_recv_tasks
       ELSE /\ hanged_recv_tasks' =
                   [hanged_recv_tasks EXCEPT ![c] = Append(@, MyTask(t, DefaultT))]
            /\ UNCHANGED calls
    /\ mutex_' = [mutex_ EXCEPT ![c] = NoThread]
    /\ pc' = [pc EXCEPT ![t] = Back(t)]
    /\ UNCHANGED <<cfgVars, aborted, is_closed_, buffer_, hanged_send_tasks, locVars,
                   waitVars, na, tokVars, selVars, next_val, recvd, sent_ok>>

\* try_send_(value, ec) reporting ok whatever try_send_(value) returned.
try_send_return_never_exhausted(t) ==
    LET c == call[t].chan
        e == IF ret[t] = "closed" THEN "closed" ELSE "ok"
    IN
    /\ Alive /\ pc[t] = "send_ret" /\ call[t].name = "try_send"
    /\ ec' = [ec EXCEPT ![t] = e]
    /\ sent_ok' = IF e = "ok" THEN sent_ok \cup {value[t]} ELSE sent_ok
    /\ mutex_' = [mutex_ EXCEPT ![c] = NoThread]
    /\ pc' = [pc EXCEPT ![t] = Back(t)]
    /\ ret' = [ret EXCEPT ![t] = "none"]
    /\ UNCHANGED <<cfgVars, aborted, is_closed_, buffer_, hanged_recv_tasks,
                   hanged_send_tasks, locVars, value, done, task_stop, na, tokVars,
                   selVars, next_val, recvd, calls>>

\* try_send_(value, ec) after try_send_(value), lines 418-431
try_send_return(t) ==
    LET c == call[t].chan
        e == CASE ret[t] = "closed" -> "closed"
               [] Cap[c] = unbounded_capacity -> "ok"
               [] ret[t] = "true" -> "ok"
               [] OTHER -> "exhausted"
    IN
    /\ Alive /\ pc[t] = "send_ret" /\ call[t].name = "try_send"
    /\ ec' = [ec EXCEPT ![t] = e]
    /\ sent_ok' = IF e = "ok" THEN sent_ok \cup {value[t]} ELSE sent_ok
    /\ mutex_' = [mutex_ EXCEPT ![c] = NoThread]
    /\ pc' = [pc EXCEPT ![t] = Back(t)]
    /\ ret' = [ret EXCEPT ![t] = "none"]
    /\ UNCHANGED <<cfgVars, aborted, is_closed_, buffer_, hanged_recv_tasks,
                   hanged_send_tasks, locVars, value, done, task_stop, na, tokVars,
                   selVars, next_val, recvd, calls>>

\* send_ after try_send_(value), lines 439-501
send_return(t) ==
    LET c == call[t].chan IN
    /\ Alive /\ pc[t] = "send_ret" /\ call[t].name = "send"
    /\ ret' = [ret EXCEPT ![t] = "none"]
    /\ IF ret[t] \in {"canceled", "closed", "true"} \/ Cap[c] = unbounded_capacity
       THEN /\ ec' = [ec EXCEPT ![t] =
                        IF ret[t] \in {"canceled", "closed"} THEN ret[t] ELSE "ok"]
            /\ sent_ok' = IF ret[t] \in {"canceled", "closed"} THEN sent_ok
                          ELSE sent_ok \cup {value[t]}
            /\ mutex_' = [mutex_ EXCEPT ![c] = NoThread]
            /\ pc' = [pc EXCEPT ![t] = Back(t)]
            /\ UNCHANGED <<aborted, hanged_send_tasks, done, task_stop, on_cancel>>
       ELSE /\ Suspend(t, c)
            /\ hanged_send_tasks' =
                   IF stop_requested[t] THEN hanged_send_tasks
                   ELSE [hanged_send_tasks EXCEPT ![c] = Append(@, BlockTask(t))]
            /\ UNCHANGED <<ec, sent_ok>>
    /\ UNCHANGED <<cfgVars, is_closed_, buffer_, hanged_recv_tasks, locVars, value,
                   na, stop_requested, selVars, next_val, recvd, calls>>

\* send_sched_ after try_send_(value), lines 512-537
send_sched_return(t) ==
    LET c == call[t].chan
        settled == ret[t] \in {"closed", "true"} \/ Cap[c] = unbounded_capacity
        ok == ret[t] # "closed"
    IN
    /\ Alive /\ pc[t] = "send_ret" /\ call[t].name = "send_sched"
    /\ ret' = [ret EXCEPT ![t] = "none"]
    /\ IF settled
       THEN /\ calls' = Invoke(t, MyN(t), ok)
            /\ sent_ok' = IF ok THEN sent_ok \cup {value[t]} ELSE sent_ok
            /\ UNCHANGED hanged_send_tasks
       ELSE /\ hanged_send_tasks' =
                   [hanged_send_tasks EXCEPT ![c] = Append(@, MyTask(t, value[t]))]
            /\ UNCHANGED <<calls, sent_ok>>
    /\ mutex_' = [mutex_ EXCEPT ![c] = NoThread]
    /\ pc' = [pc EXCEPT ![t] = Back(t)]
    /\ UNCHANGED <<cfgVars, aborted, is_closed_, buffer_, hanged_recv_tasks, locVars,
                   waitVars, na, tokVars, selVars, next_val, recvd>>

\* std::scoped_lock wait(done), lines 270 and 501, and the return: the
\* destructor of on_cancel waits for a callback that is running on another
\* thread.
wait_return(t) ==
    /\ Alive /\ pc[t] = "wait"
    /\ done[t] \in {"unlocked", "double"}
    /\ on_cancel[t] # "running"
    /\ pc' = [pc EXCEPT ![t] = "idle"]
    /\ done' = [done EXCEPT ![t] = "free"]
    /\ on_cancel' = [on_cancel EXCEPT ![t] = "none"]
    /\ sent_ok' = IF call[t].name = "send" /\ ec[t] = "ok"
                  THEN sent_ok \cup {value[t]} ELSE sent_ok
    /\ UNCHANGED <<cfgVars, aborted, chanVars, locVars, value, ec, ret, task_stop,
                   na, stop_requested, selVars, next_val, recvd, calls>>

\* ------------------------------------------------------- close and size
\* One round of while(!hanged_recv_tasks.empty()) of close, lines 180-186.
close_recv_tasks(t) ==
    LET c == call[t].chan
        q == hanged_recv_tasks[c]
        h == Head(q)
    IN
    /\ Alive /\ pc[t] = "close_r"
    /\ IF q = <<>>
       THEN /\ pc' = [pc EXCEPT ![t] = "close_s"]
            /\ UNCHANGED <<hanged_recv_tasks, waitVars, na, recvd, calls>>
       ELSE /\ HeadKnown(t, h)
            /\ na' = [na EXCEPT ![t] = "none"]
            /\ hanged_recv_tasks' = [hanged_recv_tasks EXCEPT ![c] = Pop(@)]
            /\ IF HeadAbort(t, h)
               THEN UNCHANGED <<waitVars, recvd, calls>>
               ELSE ExecRecv(h, FALSE, DefaultT)
            /\ UNCHANGED pc
    /\ UNCHANGED <<cfgVars, aborted, mutex_, is_closed_, buffer_, hanged_send_tasks,
                   locVars, ret, tokVars, selVars, next_val, sent_ok>>

\* close without its loop over hanged_send_tasks.
close_forgets_senders(t) ==
    LET c == call[t].chan IN
    /\ Alive /\ pc[t] = "close_s"
    /\ mutex_' = [mutex_ EXCEPT ![c] = NoThread]
    /\ pc' = [pc EXCEPT ![t] = Back(t)]
    /\ UNCHANGED <<cfgVars, aborted, is_closed_, buffer_, hanged_recv_tasks,
                   hanged_send_tasks, locVars, waitVars, ret, na, tokVars, selVars,
                   histVars>>

\* One round of while(!hanged_send_tasks.empty()) of close, lines 188-196
\* (compiled only for Cap != unbounded_capacity), and the return.
close_send_tasks(t) ==
    LET c == call[t].chan
        q == hanged_send_tasks[c]
        h == Head(q)
    IN
    /\ Alive /\ pc[t] = "close_s"
    /\ IF Cap[c] = unbounded_capacity \/ q = <<>>
       THEN /\ mutex_' = [mutex_ EXCEPT ![c] = NoThread]
            /\ pc' = [pc EXCEPT ![t] = Back(t)]
            /\ UNCHANGED <<hanged_send_tasks, ec, done, task_stop, na, sent_ok, calls>>
       ELSE /\ HeadKnown(t, h)
            /\ na' = [na EXCEPT ![t] = "none"]
            /\ hanged_send_tasks' = [hanged_send_tasks EXCEPT ![c] = Pop(@)]
            /\ IF HeadAbort(t, h)
               THEN UNCHANGED <<ec, done, task_stop, sent_ok, calls>>
               ELSE ExecSend(h, FALSE)
            /\ UNCHANGED <<mutex_, pc>>
    /\ UNCHANGED <<cfgVars, aborted, is_closed_, buffer_, hanged_recv_tasks,
                   locVars, value, ret, tokVars, selVars, next_val, recvd>>

\* One round of while(!hanged_recv_tasks.empty()) of size, lines 150-156: only
\* aborted heads are popped; the loop breaks at the first head whose need_abort
\* returns false.
size_recv_tasks(t) ==
    LET c == call[t].chan
        q == hanged_recv_tasks[c]
        h == Head(q)
    IN
    /\ Alive /\ pc[t] = "size_r"
    /\ IF q = <<>>
       THEN /\ pc' = [pc EXCEPT ![t] = "size_s"]
            /\ UNCHANGED <<hanged_recv_tasks, na>>
       ELSE /\ HeadKnown(t, h)
            /\ na' = [na EXCEPT ![t] = "none"]
            /\ IF HeadAbort(t, h)
               THEN /\ hanged_recv_tasks' = [hanged_recv_tasks EXCEPT ![c] = Pop(@)]
                    /\ UNCHANGED pc
               ELSE /\ pc' = [pc EXCEPT ![t] = "size_s"]
                    /\ UNCHANGED hanged_recv_tasks
    /\ UNCHANGED <<cfgVars, aborted, mutex_, is_closed_, buffer_, hanged_send_tasks,
                   locVars, waitVars, ret, tokVars, selVars, histVars>>

\* One round of while(!hanged_send_tasks.empty()) of size, lines 158-166
\* (compiled only for Cap != unbounded_capacity), and the return, line 168.
size_send_tasks(t) ==
    LET c == call[t].chan
        q == hanged_send_tasks[c]
        h == Head(q)
        popping == Cap[c] # unbounded_capacity /\ q # <<>> /\ HeadAbort(t, h)
    IN
    /\ Alive /\ pc[t] = "size_s"
    /\ Cap[c] # unbounded_capacity /\ q # <<>> => HeadKnown(t, h)
    /\ na' = [na EXCEPT ![t] = "none"]
    /\ IF popping
       THEN /\ hanged_send_tasks' = [hanged_send_tasks EXCEPT ![c] = Pop(@)]
            /\ UNCHANGED <<mutex_, pc, size_ret>>
       ELSE /\ size_ret' = [size_ret EXCEPT ![t] =
                   Len(buffer_[c]) + Len(hanged_send_tasks[c])
                       - Len(hanged_recv_tasks[c])]
            /\ mutex_' = [mutex_ EXCEPT ![c] = NoThread]
            /\ pc' = [pc EXCEPT ![t] = Back(t)]
            /\ UNCHANGED hanged_send_tasks
    /\ UNCHANGED <<cfgVars, aborted, is_closed_, buffer_, hanged_recv_tasks, call,
                   seq, waitVars, ret, tokVars, selVars, histVars>>

\* ----------------------------------------------------------- stop tokens
\* stop_source.request_stop() on the token a thread passes to its calls: sets
\* the flag and starts the registered callback on the requesting thread.
request_stop(t) ==
    /\ Alive /\ ~stop_requested[t]
    /\ stop_requested' = [stop_requested EXCEPT ![t] = TRUE]
    /\ on_cancel' = [on_cancel EXCEPT ![t] =
                        IF @ = "registered" THEN "running" ELSE @]
    /\ UNCHANGED <<cfgVars, aborted, chanVars, pc, locVars, waitVars, ret, na,
                   selVars, histVars>>

\* The callback of on_cancel without the test of task_token.stop_requested().
on_cancel_unconditional(t) ==
    /\ Alive /\ t \in Workers /\ on_cancel[t] = "running"
    /\ mutex_[call[t].chan] = NoThread
    /\ on_cancel' = [on_cancel EXCEPT ![t] = "ran"]
    /\ ec' = [ec EXCEPT ![t] = "canceled"]
    /\ done' = [done EXCEPT ![t] = Unlock(@)]
    /\ task_stop' = [task_stop EXCEPT ![t] = TRUE]
    /\ UNCHANGED <<cfgVars, aborted, chanVars, pc, locVars, value, ret, na,
                   stop_requested, selVars, histVars>>

\* The callback of on_cancel in recv (lines 235-247) and send_ (lines 466-478),
\* run by the thread that requested the stop.
on_cancel_task(t) ==
    /\ Alive /\ t \in Workers /\ on_cancel[t] = "running"
    /\ mutex_[call[t].chan] = NoThread
    /\ on_cancel' = [on_cancel EXCEPT ![t] = "ran"]
    /\ IF task_stop[t]
       THEN UNCHANGED <<ec, done, task_stop>>
       ELSE /\ ec' = [ec EXCEPT ![t] = "canceled"]
            /\ done' = [done EXCEPT ![t] = Unlock(@)]
            /\ task_stop' = [task_stop EXCEPT ![t] = TRUE]
    /\ UNCHANGED <<cfgVars, aborted, chanVars, pc, locVars, value, ret, na,
                   stop_requested, selVars, histVars>>

\* ---------------------------------------------------------------- select
\* need_abort of select, lines 183-192, called by a thread that examines the
\* head of a waiter queue: under ctx->mutex, true if is_done; otherwise
\* cancel() (is_done = true; done.unlock()) and false.  The thread holds the
\* channel's mutex_ and waits for ctx->mutex if another thread holds it.
need_abort(t) ==
    /\ Alive /\ pc[t] \in LoopPcs
    /\ ~(call[t].name = "close" /\ pc[t] = "close_s"
            /\ Cap[call[t].chan] = unbounded_capacity)
    /\ ~(call[t].name = "size" /\ pc[t] = "size_s"
            /\ Cap[call[t].chan] = unbounded_capacity)
    /\ LoopQueue(t) # <<>>
    /\ Head(LoopQueue(t)).kind = "select"
    /\ na[t] = "none"
    /\ ~AssertFails(t)
    /\ IF ctx_mutex = t
       THEN /\ Relock(t)
            /\ UNCHANGED <<na, is_done, done>>
       ELSE /\ ctx_mutex = NoThread
            /\ IF is_done
               THEN /\ na' = [na EXCEPT ![t] = "abort"]
                    /\ UNCHANGED <<is_done, done>>
               ELSE /\ na' = [na EXCEPT ![t] = "go"]
                    /\ is_done' = TRUE
                    /\ done' = [done EXCEPT ![SelThread] = Unlock(@)]
            /\ UNCHANGED <<pc, aborted>>
    /\ UNCHANGED <<cfgVars, chanVars, locVars, value, ec, ret, task_stop, tokVars,
                   ctx_mutex, op_i, attempted, histVars>>

\* The greedy pass, lines 141-150: op.try_execute() of the next operation calls
\* chan_.try_recv(value, ec) (line 59) or chan_.try_send(value_, ec) (line 101).
select_try_execute ==
    LET o == ops[op_i] IN
    /\ Alive /\ pc[SelThread] = "greedy"
    /\ attempted' = attempted \cup {op_i}
    /\ IF o.kind = "recv"
       THEN EnterRecv(SelThread, o.chan, "try_recv")
       ELSE EnterSend(SelThread, o.chan, "try_send", o.val)
    /\ UNCHANGED <<cfgVars, aborted, is_closed_, buffer_, hanged_recv_tasks,
                   hanged_send_tasks, seq, size_ret, ec, done, task_stop, na,
                   tokVars, ctx_mutex, is_done, op_i, histVars>>

\* The greedy pass without its is_executed check: the pass goes on to the next
\* operation after one has settled.
try_execute_goes_on ==
    /\ Alive /\ pc[SelThread] = "try_execute"
    /\ calls' = IF ec[SelThread] # "exhausted"
                THEN Invoke(SelThread, op_i, ec[SelThread] = "ok") ELSE calls
    /\ IF op_i < Len(ops)
       THEN /\ op_i' = op_i + 1
            /\ pc' = [pc EXCEPT ![SelThread] = "greedy"]
       ELSE /\ pc' = [pc EXCEPT ![SelThread] =
                        IF ec[SelThread] # "exhausted" \/ SelectInvocations > 0
                        THEN "returned" ELSE "setup"]
            /\ UNCHANGED op_i
    /\ UNCHANGED <<cfgVars, aborted, chanVars, locVars, waitVars, ret, na, tokVars,
                   ctx_mutex, is_done, attempted, next_val, recvd, sent_ok>>

\* The greedy pass without its fallback branch: select goes on to register the
\* operations although a fallback was given.
try_execute_skips_fallback ==
    /\ Alive /\ pc[SelThread] = "try_execute"
    /\ IF ec[SelThread] # "exhausted"
       THEN /\ calls' = Invoke(SelThread, op_i, ec[SelThread] = "ok")
            /\ pc' = [pc EXCEPT ![SelThread] = "returned"]
            /\ UNCHANGED op_i
       ELSE IF op_i < Len(ops)
       THEN /\ op_i' = op_i + 1
            /\ pc' = [pc EXCEPT ![SelThread] = "greedy"]
            /\ UNCHANGED calls
       ELSE /\ pc' = [pc EXCEPT ![SelThread] = "setup"]
            /\ UNCHANGED <<calls, op_i>>
    /\ UNCHANGED <<cfgVars, aborted, chanVars, locVars, waitVars, ret, na, tokVars,
                   ctx_mutex, is_done, attempted, next_val, recvd, sent_ok>>

\* The greedy pass with try_execute returning false for closed as it does for
\* exhausted: only ok settles the operation.
try_execute_closed_is_exhausted ==
    /\ Alive /\ pc[SelThread] = "try_execute"
    /\ IF ec[SelThread] = "ok"
       THEN /\ calls' = Invoke(SelThread, op_i, TRUE)
            /\ pc' = [pc EXCEPT ![SelThread] = "returned"]
            /\ UNCHANGED op_i
       ELSE IF op_i < Len(ops)
       THEN /\ op_i' = op_i + 1
            /\ pc' = [pc EXCEPT ![SelThread] = "greedy"]
            /\ UNCHANGED calls
       ELSE IF fallback
       THEN /\ calls' = Invoke(SelThread, 0, TRUE)
            /\ pc' = [pc EXCEPT ![SelThread] = "returned"]
            /\ UNCHANGED op_i
       ELSE /\ pc' = [pc EXCEPT ![SelThread] = "setup"]
            /\ UNCHANGED <<calls, op_i>>
    /\ UNCHANGED <<cfgVars, aborted, chanVars, locVars, waitVars, ret, na, tokVars,
                   ctx_mutex, is_done, attempted, next_val, recvd, sent_ok>>

\* try_execute after the channel call (lines 61-67, 103-109) and the rest of
\* the greedy pass with the fallback branch (lines 143-160).
try_execute_return ==
    /\ Alive /\ pc[SelThread] = "try_execute"
    /\ IF ec[SelThread] # "exhausted"
       THEN /\ calls' = Invoke(SelThread, op_i, ec[SelThread] = "ok")
            /\ pc' = [pc EXCEPT ![SelThread] = "returned"]
            /\ UNCHANGED op_i
       ELSE IF op_i < Len(ops)
       THEN /\ op_i' = op_i + 1
            /\ pc' = [pc EXCEPT ![SelThread] = "greedy"]
            /\ UNCHANGED calls
       ELSE IF fallback
       THEN /\ calls' = Invoke(SelThread, 0, TRUE)
            /\ pc' = [pc EXCEPT ![SelThread] = "returned"]
            /\ UNCHANGED op_i
       ELSE /\ pc' = [pc EXCEPT ![SelThread] = "setup"]
            /\ UNCHANGED <<calls, op_i>>
    /\ UNCHANGED <<cfgVars, aborted, chanVars, locVars, waitVars, ret, na, tokVars,
                   ctx_mutex, is_done, attempted, next_val, recvd, sent_ok>>

\* Lines 162-192: ctx->mutex.lock(); done.lock(); the stop_callback on_cancel.
\* If the token is already stop-requested, the constructor of on_cancel runs the
\* callback at once on this thread, and the callback locks ctx->mutex, which
\* this thread holds.
select_setup ==
    /\ Alive /\ pc[SelThread] = "setup"
    /\ ctx_mutex' = SelThread
    /\ done' = [done EXCEPT ![SelThread] = "locked"]
    /\ op_i' = 1
    /\ IF stop_requested[SelThread]
       THEN /\ Relock(SelThread)
            /\ UNCHANGED on_cancel
       ELSE /\ on_cancel' = [on_cancel EXCEPT ![SelThread] = "registered"]
            /\ pc' = [pc EXCEPT ![SelThread] = "schedule"]
            /\ UNCHANGED aborted
    /\ UNCHANGED <<cfgVars, chanVars, locVars, value, ec, ret, task_stop, na,
                   stop_requested, is_done, attempted, histVars>>

\* Lines 194-199: op.schedule(need_abort) calls chan_.recv_sched (line 71) or
\* chan_.send_sched (line 113), with ctx->mutex held.
select_schedule ==
    LET o == ops[op_i] IN
    /\ Alive /\ pc[SelThread] = "schedule"
    /\ IF o.kind = "recv"
       THEN EnterRecv(SelThread, o.chan, "recv_sched")
       ELSE EnterSend(SelThread, o.chan, "send_sched", o.val)
    /\ UNCHANGED <<cfgVars, aborted, is_closed_, buffer_, hanged_recv_tasks,
                   hanged_send_tasks, seq, size_ret, ec, done, task_stop, na,
                   tokVars, selVars, histVars>>

\* The next operation of lines 194-199, or ctx->mutex.unlock(), line 201.
scheduled_return ==
    /\ Alive /\ pc[SelThread] = "scheduled"
    /\ IF op_i < Len(ops)
       THEN /\ op_i' = op_i + 1
            /\ pc' = [pc EXCEPT ![SelThread] = "schedule"]
            /\ UNCHANGED ctx_mutex
       ELSE /\ ctx_mutex' = NoThread
            /\ pc' = [pc EXCEPT ![SelThread] = "sel_wait"]
            /\ UNCHANGED op_i
    /\ UNCHANGED <<cfgVars, aborted, chanVars, locVars, waitVars, ret, na, tokVars,
                   is_done, attempted, histVars>>

\* std::scoped_lock wait(done), line 202, and the return of select.
select_return ==
    /\ Alive /\ pc[SelThread] = "sel_wait"
    /\ done[SelThread] \in {"unlocked", "double"}
    /\ on_cancel[SelThread] # "running"
    /\ pc' = [pc EXCEPT ![SelThread] = "returned"]
    /\ on_cancel' = [on_cancel EXCEPT ![SelThread] = "none"]
    /\ UNCHANGED <<cfgVars, aborted, chanVars, locVars, waitVars, ret, na,
                   stop_requested, selVars, histVars>>

\* The callback of select's on_cancel without the test of ctx->is_done.
on_cancel_select_unconditional ==
    /\ Alive /\ on_cancel[SelThread] = "running"
    /\ ctx_mutex = NoThread
    /\ on_cancel' = [on_cancel EXCEPT ![SelThread] = "ran"]
    /\ is_done' = TRUE
    /\ done' = [done EXCEPT ![SelThread] = Unlock(@)]
    /\ UNCHANGED <<cfgVars, aborted, chanVars, pc, locVars, value, ec, ret,
                   task_stop, na, stop_requested, ctx_mutex, op_i, attempted,
                   histVars>>

\* The callback of select's on_cancel, lines 174-181, run by the thread that
\* requested the stop.
on_cancel_select ==
    /\ Alive /\ on_cancel[SelThread] = "running"
    /\ ctx_mutex = NoThread
    /\ on_cancel' = [on_cancel EXCEPT ![SelThread] = "ran"]
    /\ IF is_done
       THEN UNCHANGED <<is_done, done>>
       ELSE /\ is_done' = TRUE
            /\ done' = [done EXCEPT ![SelThread] = Unlock(@)]
    /\ UNCHANGED <<cfgVars, aborted, chanVars, pc, locVars, value, ec, ret,
                   task_stop, na, stop_requested, ctx_mutex, op_i, attempted,
                   histVars>>

\* ------------------------------------------------------ initial states
\* The capacities a channel is instantiated with: bounded_channel<T, 0>,
\* bounded_channel<T, n> and bounded_channel<T, unbounded_capacity>.
Capacities == (0..MaxCap) \cup {unbounded_capacity}

recv_op(c) == [kind |-> "recv", chan |-> c, val |-> DefaultT]
send_op(c, v) == [kind |-> "send", chan |-> c, val |-> v]

\* The argument lists of select the model follows; the values of its send
\* operations are MaxVal + 1 and MaxVal + 2.
SelectCalls ==
    { <<recv_op("c1"), recv_op("c2")>>,
      <<send_op("c2", MaxVal + 1), send_op("c2", MaxVal + 2)>>,
      <<recv_op("c1"), send_op("c1", MaxVal + 1)>> }

\* Freshly constructed channels (lines 540-546) and threads that have not
\* called anything yet.
InitState(caps, selpc, opsets, fbs) ==
    /\ Cap \in caps
    /\ NDEBUG \in BOOLEAN
    /\ aborted = FALSE
    /\ mutex_ = [c \in Chans |-> NoThread]
    /\ is_closed_ = [c \in Chans |-> FALSE]
    /\ buffer_ = [c \in Chans |-> <<>>]
    /\ hanged_recv_tasks = [c \in Chans |-> <<>>]
    /\ hanged_send_tasks = [c \in Chans |-> <<>>]
    /\ pc = [t \in Threads |-> IF t = SelThread THEN selpc ELSE "idle"]
    /\ call = [t \in Threads |-> [name |-> "none", chan |-> "c1", live |-> {}, susp |-> FALSE]]
    /\ seq = [t \in Threads |-> 0]
    /\ value = [t \in Threads |-> DefaultT]
    /\ ec = [t \in Threads |-> "ok"]
    /\ ret = [t \in Threads |-> "none"]
    /\ size_ret = [t \in Threads |-> 0]
    /\ done = [t \in Threads |-> "free"]
    /\ task_stop = [t \in Threads |-> FALSE]
    /\ na = [t \in Threads |-> "none"]
    /\ stop_requested = [t \in Threads |-> FALSE]
    /\ on_cancel = [t \in Threads |-> "none"]
    /\ ctx_mutex = NoThread
    /\ is_done = FALSE
    /\ ops \in opsets
    /\ fallback \in fbs
    /\ op_i = 1
    /\ attempted = {}
    /\ next_val = 1
    /\ recvd = <<>>
    /\ sent_ok = {}
    /\ calls = EmptyBag

\* One step of a thread inside a channel member function.
Inside(t) ==
    \/ try_recv_(t)
    \/ try_recv_drain(t)
    \/ try_recv_handoff(t)
    \/ try_send_(t)
    \/ try_recv_return(t)
    \/ recv_return(t)
    \/ recv_sched_return(t)
    \/ try_send_return(t)
    \/ send_return(t)
    \/ send_sched_return(t)
    \/ close_recv_tasks(t)
    \/ close_send_tasks(t)
    \/ size_recv_tasks(t)
    \/ size_send_tasks(t)

\* --------------------------------------------- senders and receivers
\* Threads that send and receive with the blocking operations on one channel,
\* which is closed once every send has returned and every value is taken (the
\* main thread of "multi send recv").
InitPipe ==
    InitState({[c \in Chans |-> n] : n \in Capacities}, "off", {<<>>}, {FALSE})

Quiet ==
    /\ \A t \in Workers : pc[t] = "idle" \/ (pc[t] = "wait" /\ call[t].name = "recv")
    /\ buffer_["c1"] = <<>>
    /\ sent_ok \subseteq Range(recvd)

close_late(t) == Quiet /\ ~is_closed_["c1"] /\ close(t, "c1")

NextPipe ==
    \E t \in Workers :
        \/ send_(t, "c1")
        \/ recv(t, "c1")
        \/ close_late(t)
        \/ try_recv_(t)
        \/ try_recv_drain(t)
        \/ try_recv_handoff(t)
        \/ try_send_(t)
        \/ recv_return(t)
        \/ send_return(t)
        \/ wait_return(t)
        \/ close_recv_tasks(t)
        \/ close_send_tasks(t)

SpecPipe == InitPipe /\ [][NextPipe]_vars

\* --------------------------------------------- one sender, one receiver
\* w1 sends with send, try_send and send_sched, w2 receives with recv, try_recv
\* and recv_sched, w3 closes the channel or asks its size; the tokens of w1 and
\* w2 may be tripped at any moment.
InitChan ==
    InitState({[c \in Chans |-> n] : n \in Capacities}, "off", {<<>>}, {FALSE})

NextChan ==
    \/ send_("w1", "c1")
    \/ try_send("w1", "c1")
    \/ send_sched_("w1", "c1")
    \/ recv("w2", "c1")
    \/ try_recv("w2", "c1")
    \/ recv_sched("w2", "c1")
    \/ close("w3", "c1")
    \/ size("w3", "c1")
    \/ \E t \in Workers : Inside(t) \/ wait_return(t)
    \/ \E t \in {"w1", "w2"} : request_stop(t) \/ on_cancel_task(t)

SpecChan == InitChan /\ [][NextChan]_vars

\* --------------------------------------------------------------- select
\* The select thread calls select once, with or without a fallback; w1 sends
\* and receives on the channels of the select, w2 closes them or asks their
\* size; the token of select may be tripped at any moment.
SelectCaps == {[c \in Chans |-> n] : n \in {0, 1, unbounded_capacity}}

InitSel == InitState(SelectCaps, "greedy", SelectCalls, BOOLEAN)

NextSel ==
    \/ select_try_execute
    \/ try_execute_return
    \/ select_setup
    \/ select_schedule
    \/ scheduled_return
    \/ select_return
    \/ on_cancel_select
    \/ request_stop(SelThread)
    \/ \E t \in {"w1", "w2", SelThread} : Inside(t) \/ need_abort(t)
    \/ wait_return("w1")
    \/ \E c \in Chans :
        \/ send_("w1", c)
        \/ recv("w1", c)
        \/ close("w2", c)
        \/ size("w2", c)

SpecSel == InitSel /\ [][NextSel]_vars

\* ================================================================ claims
NoDup(q) == \A i, j \in DOMAIN q : i # j => q[i] # q[j]

\* C1: at most one completion callback of a select without fallback is ever
\* invoked, whatever the concurrent sends, receives and closes do, also when
\* several operations become ready after the greedy pass or during the
\* registration.
C1_AtMostOneCallback == SelectInvocations <= 1

\* C2: with blocking senders of distinct values and blocking receivers on a
\* channel of any capacity, closed only after every send has returned and every
\* value is taken, no value is duplicated, invented or lost: the values handed
\* to receivers and those still buffered are pairwise distinct values that were
\* issued, every value whose send returned ok is among them, two receivers that
\* have returned ok hold different values that were handed over, and once the
\* channel is closed every value whose send returned ok has been received.
C2_NoLossNoDuplication ==
    LET all == recvd \o buffer_["c1"]
        got == {t \in Workers : pc[t] = "idle" /\ call[t].name = "recv" /\ ec[t] = "ok"}
    IN
    /\ NoDup(all)
    /\ Range(all) \subseteq 1..(next_val - 1)
    /\ sent_ok \subseteq Range(all)
    /\ \A t \in got : value[t] \in Range(recvd)
    /\ \A t, u \in got : t # u => value[t] # value[u]
    /\ is_closed_["c1"] => sent_ok \subseteq Range(recvd)

\* A run of C2: the channel of capacity 1 is closed after two values went
\* through it, one of them moved out of a hanging blocking sender.
C2_Witness ==
    /\ Cap["c1"] = 1
    /\ is_closed_["c1"]
    /\ Len(recvd) >= 2
    /\ \E t \in Workers : call[t].name = "recv" /\ pc[t] = "idle" /\ ec[t] = "ok"
    /\ \E t \in Workers, n \in 1..MaxOps : Invoked(t, n, TRUE) > 0

\* C3: the buffer of a bounded channel of capacity n >= 1 never holds more than
\* n values, also after a receive drained hanging senders into it.
C3_BufferWithinCapacity ==
    \A c \in Chans : Cap[c] >= 1 => Len(buffer_[c]) <= Cap[c]

\* The waiters close() or size() of thread t found live when it began.
WasLive(t) == call[t].live

\* Thread t has returned from close().
Closed(t) == t \in Workers /\ call[t].name = "close" /\ pc[t] = "idle"

\* The blocking or scheduled waiter h was settled by close: invoked once with
\* ok = false and never with ok = true; the thread suspended in it has code
\* closed and its done is released.
SettledClosed(h) ==
    /\ Invoked(h.who, h.n, FALSE) = 1
    /\ Invoked(h.who, h.n, TRUE) = 0
    /\ (h.kind = "block" /\ seq[h.who] = h.n) =>
            ec[h.who] = "closed" /\ done[h.who] # "locked"

C5_CanceledCallReturns ==
    \A t \in {"w1", "w2"} :
        (call[t].name \in {"recv", "send"} /\ stop_requested[t] /\ pc[t] # "idle")
            => pc[t] # "stuck"
               /\ ~(aborted /\ pc[t] \in {"recv_ret", "send_ret"} /\ ret[t] = "false")

\* C6: one sender (w1, issuing 1, 2, ... with any mix of send, try_send and
\* send_sched) and one receiver (w2) on one channel: the values are handed to the
\* receiver in the order in which their sends were issued.
C6_ReceivedInSentOrder ==
    \A i, j \in DOMAIN recvd : i < j => recvd[i] < recvd[j]

\* C7: a select without fallback none of whose operations becomes ready (no
\* other thread has called anything) and whose token is stop-requested can
\* still return: it is not left waiting for the mutex of its context, which it
\* holds itself, and it does not end the process.
C7_CanceledSelectReturns ==
    (stop_requested[SelThread] /\ \A t \in Workers : seq[t] = 0)
        => pc[SelThread] # "stuck" /\ ~aborted

\* Thread t holds the mutex_ of the channel select is about to register an
\* operation on, and waits in the select's need_abort for ctx->mutex, which
\* select holds.
WaitsForEachOther(t) ==
    /\ pc[SelThread] = "schedule"
    /\ ctx_mutex = SelThread
    /\ mutex_[ops[op_i].chan] = t
    /\ pc[t] \in LoopPcs
    /\ LoopQueue(t) # <<>>
    /\ Head(LoopQueue(t)).kind = "select"
    /\ na[t] = "none"
    /\ ~(pc[t] \in {"close_s", "size_s"} /\ Cap[call[t].chan] = unbounded_capacity)

\* C8: no reachable state has the select thread holding ctx->mutex and waiting
\* for a channel's mutex_ while another thread holds that mutex_ and waits for
\* ctx->mutex.
C8_NoLockOrderDeadlock == \A t \in Workers : ~WaitsForEachOther(t)

\* A waiter of the select is registered on some channel.
SelectRegistered ==
    \E c \in Chans :
        \E h \in Range(hanged_recv_tasks[c]) \cup Range(hanged_send_tasks[c]) :
            h.kind = "select"

\* The fallback of select was invoked (it is recorded as callback 0).
FallbackInvoked == Invoked(SelThread, 0, TRUE)

\* select has returned from its greedy pass, not through the fallback.
GreedyReturned ==
    pc[SelThread] = "returned" /\ done[SelThread] = "free" /\ FallbackInvoked = 0

\* C9: the greedy pass tries the operations in the order given, one after the
\* other, and invokes no callback while every operation so far has reported
\* exhausted; when an operation does not report exhausted, select returns: the
\* operations tried are exactly those up to it, the only callback invoked is
\* that operation's, once, with ok = (ec == ok), and no waiter of the select is
\* registered on any channel.
C9_GreedyStopsAtFirstReady ==
    /\ (done[SelThread] = "free" /\ pc[SelThread] # "returned") =>
            /\ attempted \subseteq 1..op_i
            /\ 1..(op_i - 1) \subseteq attempted
            /\ SelectInvocations = 0
            /\ ~SelectRegistered
    /\ GreedyReturned =>
            /\ attempted = 1..op_i
            /\ ec[SelThread] # "exhausted"
            /\ Invoked(SelThread, op_i, ec[SelThread] = "ok") = 1
            /\ SelectInvocations = 1
            /\ ~SelectRegistered

\* A run of C9: select has returned after its first operation, a recv, took a
\* value, and its second operation, a recv too, was ready and was not tried.
C9_Witness ==
    /\ GreedyReturned
    /\ op_i = 1 /\ attempted = {1}
    /\ Invoked(SelThread, 1, TRUE) = 1
    /\ ops[2].kind = "recv" /\ buffer_[ops[2].chan] # <<>>
    /\ \A t \in Workers : pc[t] = "idle"

NotSelect(h) == h.kind # "select"

\* What size() of channel c reports when no waiter of the select is counted.
SizeWithoutSelect(c) ==
    Len(buffer_[c]) + Len(SelectSeq(hanged_send_tasks[c], NotSelect))
        - Len(SelectSeq(hanged_recv_tasks[c], NotSelect))

\* C10: once a suspended select has returned because one of its operations
\* settled (its token was not tripped), its other operations are disabled (is_done), and a size() that
\* began when they were disabled reports no waiter of the select: what it
\* returns counts the buffer and the waiters of other callers only.
C10_SiblingsLeaveNoWaiter ==
    [][ (pc[SelThread] = "returned" /\ done[SelThread] # "free"
            /\ SelectInvocations >= 1 /\ ~stop_requested[SelThread]) =>
          /\ is_done
          /\ \A t \in Workers :
                (/\ call[t].name = "size" /\ pc[t] = "size_s" /\ pc'[t] = "idle"
                 /\ \A h \in WasLive(t) : h.kind # "select")
                    => size_ret'[t] = SizeWithoutSelect(call[t].chan) ]_vars

\* A thread has passed the gate of the select in need_abort (which returned
\* false to it) and has not come to task.execute yet.
Committing(t) ==
    /\ na[t] = "go"
    /\ pc[t] \in {"try_send_", "drain", "handoff", "close_r", "close_s"}

\* select has returned from the branch in which it was suspended.
SuspendedReturned == pc[SelThread] = "returned" /\ done[SelThread] # "free"

\* C11: close() has returned on a channel on which a waiter of the select was
\* live when close() began, the select being suspended then; no other thread
\* has sent or received and the token of the select was not tripped.  Then
\* exactly one callback of the select was invoked, once, with ok = false, the
\* select can return, and no waiter of the select is live on any channel.
C11_CloseCommitsOneOperation ==
    \A t \in Workers :
        (/\ Closed(t) /\ call[t].susp
         /\ \E h \in WasLive(t) : h.kind = "select"
         /\ seq["w1"] = 0
         /\ ~stop_requested[SelThread])
            => /\ SelectInvocations = 1
               /\ \E i \in 1..Len(ops) : Invoked(SelThread, i, FALSE) = 1
               /\ done[SelThread] # "locked"
               /\ is_done

\* C12: once the token of the select is tripped while no callback of the select
\* has been invoked and no thread has passed the gate for one, no callback of
\* the select is invoked by any later step, and the select is not left waiting
\* for ever nor ends the process.
C12_CanceledSelectInvokesNothing ==
    [][ (/\ stop_requested[SelThread]
         /\ ~fallback
         /\ SelectInvocations = 0
         /\ \A t \in Threads : ~Committing(t))
            => /\ SelectInvocations' = 0
               /\ pc'[SelThread] # "stuck"
               /\ ~aborted' ]_vars

\* C13: when select has returned from the branch in which it was suspended, no
\* thread is still between the gate it passed for an operation of the select
\* and that operation's callback, and no callback of the select has run after
\* the return.
C13_CallbackBeforeReturn ==
    SuspendedReturned =>
        /\ \A t \in Threads : ~Committing(t)
        /\ \A r \in BagToSet(calls) : ~r.late

\* C14: a select that was given a fallback never registers a waiter and never
\* suspends; its fallback is invoked at most once, and only when no callback
\* of an operation was; when every operation has reported exhausted and select
\* has returned, every operation was tried, the fallback was invoked exactly
\* once and no callback of an operation was invoked.
C14_FallbackWhenNothingReady ==
    fallback =>
        /\ pc[SelThread] \notin {"setup", "schedule", "scheduled", "sel_wait"}
        /\ done[SelThread] = "free"
        /\ ~SelectRegistered
        /\ FallbackInvoked <= 1
        /\ FallbackInvoked = 1 => SelectInvocations = 0 /\ pc[SelThread] = "returned"
        /\ (pc[SelThread] = "returned" /\ ec[SelThread] = "exhausted") =>
                /\ attempted = 1..Len(ops)
                /\ FallbackInvoked = 1
                /\ SelectInvocations = 0

\* A run of C14: select has returned through its fallback while a blocking
\* receiver hangs on one of its channels and the worker threads have made
\* their calls.
C14_Witness ==
    /\ fallback /\ pc[SelThread] = "returned" /\ FallbackInvoked = 1
    /\ \E c \in Chans : \E h \in Range(hanged_recv_tasks[c]) : h.kind = "block"
    /\ ops[1].kind = "recv"

\* C15: try_recv and recv report closed only when the buffer of the closed
\* channel is empty: the values still buffered are received first.
C15_ClosedOnlyWhenDrained ==
    \A t \in Workers :
        (/\ pc[t] = "recv_ret"
         /\ call[t].name \in {"try_recv", "recv"}
         /\ ret[t] = "closed")
            => buffer_[call[t].chan] = <<>>

LiveSize(c) ==
    Len(buffer_[c]) + Len(SelectSeq(hanged_send_tasks[c], Live))
        - Len(SelectSeq(hanged_recv_tasks[c], Live))

\* C17: what size() returns is the length of the buffer plus the number of live
\* send waiters minus the number of live receive waiters, an aborted waiter
\* not being counted wherever it sits in its queue.
C17_SizeCountsLiveWaiters ==
    [][ \A t \in Workers :
            (call[t].name = "size" /\ pc[t] = "size_s" /\ pc'[t] = "idle")
                => size_ret'[t] = LiveSize(call[t].chan) ]_vars

\* C18: the completion callback of a registered waiter (the n-th call of a
\* thread) is invoked at most once.
C18_CallbackAtMostOnce ==
    \A t \in Workers : \A n \in 1..MaxOps :
        Invoked(t, n, TRUE) + Invoked(t, n, FALSE) <= 1

\* C19: a send_sched or recv_sched on an open channel that is about to register
\* a waiter (it has not settled synchronously) was not satisfiable: for
\* send_sched no live receiver waits and the buffer has no free slot, for
\* recv_sched the buffer is empty and, at capacity 0, no live sender waits.
C19_SchedSettlesWhenSatisfiable ==
    \A t \in Workers :
        LET c == call[t].chan IN
        /\ (pc[t] = "send_ret" /\ call[t].name = "send_sched" /\ ret[t] = "false") =>
                /\ \A h \in Range(hanged_recv_tasks[c]) : ~Live(h)
                /\ Cap[c] # unbounded_capacity
                /\ ~(Cap[c] >= 1 /\ Len(buffer_[c]) < Cap[c])
        /\ (pc[t] = "recv_ret" /\ call[t].name = "recv_sched" /\ ret[t] = "false") =>
                /\ ~(Cap[c] # 0 /\ buffer_[c] # <<>>)
                /\ ~(Cap[c] = 0 /\ \E h \in Range(hanged_send_tasks[c]) : Live(h))

\* C20: a blocking recv or send that is called with a token that is already
\* stop-requested goes straight to its return, whatever the state of the
\* channel, and returns canceled; neither step changes the buffer, a waiter
\* queue, the closed flag, the caller's value or the record of transfers and
\* callbacks, and the caller does not suspend.
C20_TrippedTokenCancelsAtEntry ==
    [][ \A t \in Workers :
          /\ (/\ pc[t] = "idle" /\ pc'[t] # "idle"
               /\ call'[t].name \in {"recv", "send"}
               /\ stop_requested[t])
                  => /\ pc'[t] \in {"recv_ret", "send_ret"}
                     /\ ret'[t] = "canceled"
                     /\ UNCHANGED <<is_closed_, buffer_, hanged_recv_tasks,
                                    hanged_send_tasks, recvd, sent_ok, calls>>
          /\ (/\ pc[t] \in {"recv_ret", "send_ret"} /\ pc'[t] # pc[t]
               /\ call[t].name \in {"recv", "send"}
               /\ ret[t] = "canceled")
                  => /\ pc'[t] = "idle"
                     /\ ec'[t] = "canceled"
                     /\ mutex_'[call[t].chan] = NoThread
                     /\ UNCHANGED <<is_closed_, buffer_, hanged_recv_tasks,
                                    hanged_send_tasks, recvd, sent_ok, calls,
                                    value, done, on_cancel>> ]_vars

\* A run of C20: the first call of a thread, a recv with a tripped token on a
\* channel with a buffered value, has returned canceled and the value is still
\* in the buffer; the thread was never suspended.
C20_Witness ==
    \E t \in Workers :
        /\ pc[t] = "idle" /\ seq[t] = 1 /\ call[t].name = "recv"
        /\ ec[t] = "canceled" /\ ~task_stop[t]
        /\ buffer_[call[t].chan] # <<>>
        /\ ~is_closed_[call[t].chan]

\* C21: on a zero-capacity channel used with blocking send and recv the buffer
\* stays empty; a send that has returned ok had its value handed to a
\* receiver, and a recv that has returned ok holds a value that a sender
\* issued and that was handed over; no value counts as sent that was not
\* handed to a receiver.
C21_RendezvousAtZeroCapacity ==
    Cap["c1"] = 0 =>
        /\ buffer_["c1"] = <<>>
        /\ sent_ok \subseteq Range(recvd)
        /\ \A t \in Workers :
              (pc[t] = "idle" /\ call[t].name = "send" /\ ec[t] = "ok")
                  => value[t] \in Range(recvd)
        /\ \A t \in Workers :
              (pc[t] = "idle" /\ call[t].name = "recv" /\ ec[t] = "ok")
                  => value[t] \in Range(recvd) /\ value[t] \in 1..(next_val - 1)
        /\ NoDup(recvd)

\* A run of C21: at capacity 0 a sender that was suspended and a receiver have
\* both returned ok with the same value, and another receiver that was
\* suspended has returned ok with another value.
C21_Witness ==
    /\ Cap["c1"] = 0
    /\ \E s, r \in Workers :
          /\ pc[s] = "idle" /\ call[s].name = "send" /\ ec[s] = "ok"
          /\ pc[r] = "idle" /\ call[r].name = "recv" /\ ec[r] = "ok"
          /\ value[s] = value[r]
          /\ Invoked(s, seq[s], TRUE) = 1
    /\ \E r \in Workers :
          call[r].name = "recv" /\ pc[r] = "idle" /\ Invoked(r, seq[r], TRUE) = 1

\* The thread t is in call name on the open zero-capacity channel, it has not
\* made a transfer, and no live waiter is in the queue q of that channel.
TryingAtZero(t, name, q) ==
    /\ call[t].name = name
    /\ ret[t] # "true"
    /\ Cap[call[t].chan] = 0
    /\ ~is_closed_[call[t].chan]
    /\ \A h \in Range(q[call[t].chan]) : ~Live(h)

\* C22: while a try_recv (try_send) is inside an open zero-capacity channel on
\* which no live send (receive) waiter is registered, none of its steps
\* suspends it, reports a transfer, changes the buffer, registers a waiter or
\* changes what size() counts; it only drops aborted waiters, and it returns
\* exhausted.
C22_TryExhaustedAtZeroCapacity ==
    [][ \A t \in Workers :
          LET c == call[t].chan IN
          /\ (pc[t] \in {"try_recv_", "handoff", "recv_ret"}
                /\ TryingAtZero(t, "try_recv", hanged_send_tasks))
                  => /\ pc'[t] \in {"try_recv_", "handoff", "recv_ret", "idle"}
                     /\ ret'[t] # "true"
                     /\ (pc'[t] = "idle" => ec'[t] = "exhausted")
                     /\ \A h \in Range(hanged_send_tasks'[c]) : ~Live(h)'
                     /\ Len(hanged_send_tasks'[c]) <= Len(hanged_send_tasks[c])
                     /\ UNCHANGED <<buffer_, hanged_recv_tasks, recvd, calls>>
                     /\ LiveSize(c)' = LiveSize(c)
          /\ (pc[t] \in {"try_send_", "send_ret"}
                /\ TryingAtZero(t, "try_send", hanged_recv_tasks))
                  => /\ pc'[t] \in {"try_send_", "send_ret", "idle"}
                     /\ ret'[t] # "true"
                     /\ (pc'[t] = "idle" => ec'[t] = "exhausted")
                     /\ \A h \in Range(hanged_recv_tasks'[c]) : ~Live(h)'
                     /\ Len(hanged_recv_tasks'[c]) <= Len(hanged_recv_tasks[c])
                     /\ UNCHANGED <<buffer_, hanged_send_tasks, recvd, calls>>
                     /\ LiveSize(c)' = LiveSize(c) ]_vars

\* A run of C22: on the open zero-capacity channel a try_send has returned
\* exhausted after it dropped the aborted waiter of a canceled recv, and a
\* try_recv has returned exhausted; no waiter is registered.
C22_Witness ==
    /\ Cap["c1"] = 0 /\ ~is_closed_["c1"]
    /\ pc["w1"] = "idle" /\ call["w1"].name = "try_send" /\ ec["w1"] = "exhausted"
    /\ pc["w2"] = "idle" /\ call["w2"].name = "try_recv" /\ ec["w2"] = "exhausted"
    /\ seq["w2"] = 2 /\ stop_requested["w2"]
    /\ hanged_recv_tasks["c1"] = <<>> /\ hanged_send_tasks["c1"] = <<>>

\* The functions that send.
SendNames == {"try_send", "send", "send_sched"}

ClosedAndSettled(c) ==
    is_closed_[c] /\ hanged_recv_tasks[c] = <<>> /\ hanged_send_tasks[c] = <<>>

\* C24: a close() that has returned leaves the channel closed with both
\* queues empty; from such a state on the channel stays closed, its queues stay
\* empty and its buffer stays as it is, and no step of a further close() on it
\* invokes a callback or changes a result, a value or a gate of any call.
C24_SecondCloseChangesNothing ==
    /\ [](\A t \in Workers : Closed(t) => ClosedAndSettled(call[t].chan))
    /\ [][ \A c \in Chans :
            ClosedAndSettled(c) =>
                /\ ClosedAndSettled(c)'
                /\ buffer_'[c] = buffer_[c]
                /\ \A t \in Workers :
                      (call'[t].name = "close" /\ call'[t].chan = c /\ pc'[t] # pc[t])
                          => UNCHANGED <<calls, recvd, sent_ok, ec, value, done,
                                         task_stop, buffer_, is_done>> ]_vars

\* A run of C24: a recv was suspended and got closed by a first close(), and a
\* second close(), which found no live waiter, has returned.
C24_Witness ==
    /\ pc["w3"] = "idle" /\ call["w3"].name = "close" /\ call["w3"].live = {}
    /\ seq["w3"] = 2
    /\ pc["w2"] = "idle" /\ call["w2"].name = "recv" /\ ec["w2"] = "closed"
    /\ Invoked("w2", seq["w2"], FALSE) = 1

\* The channel c has capacity n >= 1 and holds no waiter.
BufferedNoWaiters(c) ==
    /\ Cap[c] >= 1
    /\ hanged_recv_tasks[c] = <<>> /\ hanged_send_tasks[c] = <<>>

\* C25: on a channel of capacity n >= 1 without waiters, a send or try_send
\* that finds fewer than n values buffered appends its value and returns ok
\* without suspending; a try_recv that finds the buffer non-empty takes the
\* oldest value and returns ok, and one that finds it empty returns exhausted
\* and changes nothing.  Hence n sends into the empty channel are returned by
\* the next n try_recv in order, and the one after them is exhausted.
C25_BufferIsFifo ==
    [][ \A t \in Workers :
          LET c == call[t].chan IN
          (pc'[t] # pc[t] /\ BufferedNoWaiters(c)) =>
            /\ (pc[t] = "try_send_" /\ call[t].name \in {"send", "try_send"}
                    /\ Len(buffer_[c]) < Cap[c])
                  => /\ pc'[t] = "send_ret" /\ ret'[t] = "true"
                     /\ buffer_'[c] = Append(buffer_[c], value[t])
            /\ (pc[t] = "send_ret" /\ call[t].name \in {"send", "try_send"}
                    /\ ret[t] = "true")
                  => /\ pc'[t] = "idle" /\ ec'[t] = "ok"
                     /\ UNCHANGED <<buffer_, hanged_send_tasks, hanged_recv_tasks>>
            /\ (pc[t] = "try_recv_" /\ call[t].name = "try_recv" /\ buffer_[c] # <<>>)
                  => /\ value'[t] = Head(buffer_[c])
                     /\ buffer_'[c] = Tail(buffer_[c])
                     /\ pc'[t] = "drain"
            /\ (pc[t] = "try_recv_" /\ call[t].name = "try_recv" /\ buffer_[c] = <<>>)
                  => /\ pc'[t] = "recv_ret" /\ ret'[t] = "false"
                     /\ UNCHANGED <<buffer_, value>>
            /\ (pc[t] = "drain" /\ call[t].name = "try_recv")
                  => /\ pc'[t] = "recv_ret" /\ ret'[t] = "true"
                     /\ UNCHANGED <<buffer_, value>>
            /\ (pc[t] = "recv_ret" /\ call[t].name = "try_recv"
                    /\ ret[t] \in {"true", "false"})
                  => /\ pc'[t] = "idle"
                     /\ ec'[t] = (IF ret[t] = "true" THEN "ok" ELSE "exhausted")
                     /\ UNCHANGED <<buffer_, value, hanged_send_tasks,
                                    hanged_recv_tasks>> ]_vars

\* A run of C25: at capacity 2 two sends have returned ok without a waiter
\* ever being invoked, and a try_recv that found both values buffered has taken
\* the first and is about to return ok.
C25_Witness ==
    /\ Cap["c1"] = 2 /\ BufferedNoWaiters("c1")
    /\ calls = EmptyBag
    /\ pc["w1"] = "idle" /\ seq["w1"] = 2 /\ sent_ok = {1, 2}
    /\ pc["w2"] = "recv_ret" /\ call["w2"].name = "try_recv" /\ ret["w2"] = "true"
    /\ value["w2"] = 1 /\ buffer_["c1"] = <<2>> /\ recvd = <<1>>

\* C26: whenever the drain loop of try_recv_ is about to look at a hanging
\* sender, the buffer has a free slot (the assertion buffer_.size() < Cap of
\* the loop holds), and a sender that the loop has invoked is no longer at the
\* head of the queue.
C26_DrainWithinFreeSlots ==
    \A t \in Workers :
        LET c == call[t].chan IN
        (pc[t] = "drain" /\ hanged_send_tasks[c] # <<>>) =>
            /\ Len(buffer_[c]) < Cap[c]
            /\ LET h == Head(hanged_send_tasks[c])
               IN Invoked(h.who, h.n, TRUE) = 0

\* C27: whenever the mutex of a bounded channel of capacity n >= 1 is free, a
\* live send waiter is registered only if the buffer is full; and a receive
\* never reaches the hand-off branch (buffer empty, send waiter pending) on such
\* a channel, so that its assertion Cap == 0 holds.
C27_SendWaiterOnlyWhenFull ==
    \A c \in Chans :
        Cap[c] >= 1 =>
            /\ (mutex_[c] = NoThread /\ \E h \in Range(hanged_send_tasks[c]) : Live(h))
                    => Len(buffer_[c]) >= Cap[c]
            /\ \A t \in Workers : ~(pc[t] = "handoff" /\ call[t].chan = c)

\* C28: whenever the mutex of a channel is free and its buffer is non-empty,
\* no live receive waiter is registered; and whenever try_send_ is about to look
\* at a hanging receiver, the buffer is empty (the assertion buffer_.empty()
\* holds); and a receive that is about to register a waiter or to give up
\* found the buffer empty.
C28_RecvWaiterOnlyWhenEmpty ==
    \A c \in Chans :
        /\ (mutex_[c] = NoThread /\ buffer_[c] # <<>>)
                => \A h \in Range(hanged_recv_tasks[c]) : ~Live(h)
        /\ \A t \in Workers :
              (pc[t] = "try_send_" /\ call[t].chan = c /\ hanged_recv_tasks[c] # <<>>)
                  => buffer_[c] = <<>>
        /\ \A t \in Workers :
              (pc[t] = "recv_ret" /\ call[t].chan = c /\ ret[t] = "false")
                  => buffer_[c] = <<>>

\* A run of C28: a recv was suspended and then canceled, and a send that found
\* its aborted waiter dropped it and put its value into the buffer.
C28_Witness ==
    /\ mutex_["c1"] = NoThread /\ buffer_["c1"] = <<1>>
    /\ hanged_recv_tasks["c1"] = <<>>
    /\ pc["w2"] = "wait" /\ call["w2"].name = "recv" /\ ec["w2"] = "canceled"
    /\ pc["w1"] = "idle" /\ call["w1"].name = "send" /\ ec["w1"] = "ok"
    /\ seq["w1"] = 1

\* C29: once a callback of an operation of the select has been invoked, the
\* gate of the select is closed, so that no sibling commits any more, and a
\* select that has finished registering is not left waiting on a gate that
\* nothing but a further event on a channel or the token will open.
C29_SettledSelectReturns ==
    (SelectInvocations >= 1
        /\ pc[SelThread] \in {"schedule", "scheduled", "sel_wait"})
            => /\ is_done
               /\ pc[SelThread] = "sel_wait" => done[SelThread] # "locked"

\* The number of callbacks invoked on the current call of t.
Settlements(t) == Invoked(t, seq[t], TRUE) + Invoked(t, seq[t], FALSE)

\* C30: for a blocking recv or send, the gate is never unlocked twice and the
\* waiter is invoked at most once; a call that has returned reports ok, closed
\* or canceled; if it reports canceled, no counterpart invoked its waiter and,
\* for a send, its value is neither in the buffer nor received; if a counterpart
\* invoked its waiter with ok = true, it reports ok and, for a recv, holds a
\* value that was handed over; if close invoked it, it reports closed.
C30_SettleExcludesCancel ==
    \A t \in Workers :
        call[t].name \in {"recv", "send"} =>
            /\ done[t] # "double"
            /\ Settlements(t) <= 1
            /\ pc[t] = "idle" => ec[t] \in {"ok", "closed", "canceled"}
            /\ (pc[t] \in {"wait", "idle"} /\ ec[t] = "canceled") =>
                    /\ Settlements(t) = 0
                    /\ call[t].name = "send" =>
                            value[t] \notin Range(recvd \o buffer_[call[t].chan])
            /\ (pc[t] \in {"wait", "idle"} /\ Invoked(t, seq[t], TRUE) = 1) =>
                    /\ ec[t] = "ok"
                    /\ value[t] \in Range(recvd \o buffer_[call[t].chan])
            /\ (pc[t] \in {"wait", "idle"} /\ Invoked(t, seq[t], FALSE) = 1) =>
                    ec[t] = "closed"

\* A run of C30: the token of a suspended recv was tripped after a sender had
\* handed the value over; the callback of on_cancel has run and found the task
\* settled, and the recv is about to return ok.
C30_Witness ==
    /\ pc["w2"] = "wait" /\ call["w2"].name = "recv" /\ ec["w2"] = "ok"
    /\ stop_requested["w2"] /\ on_cancel["w2"] = "ran"
    /\ Invoked("w2", seq["w2"], TRUE) = 1 /\ done["w2"] = "unlocked"

\* In this step the callback of the waiter h is invoked with ok.
ServedNow(h, ok) ==
    LET r(l) == [t |-> h.who, n |-> h.n, ok |-> ok, late |-> l]
    IN CopiesIn(r(FALSE), calls') + CopiesIn(r(TRUE), calls')
           > CopiesIn(r(FALSE), calls) + CopiesIn(r(TRUE), calls)

\* In the step from queue q to queue qn a waiter is handed a value only if
\* every waiter registered before it is aborted, and a waiter leaves the queue
\* only if it is aborted or its callback is invoked in this step.
FifoStep(q, qn) ==
    /\ \A i \in 1..Len(q) :
          ServedNow(q[i], TRUE) => \A j \in 1..(i - 1) : ~Live(q[j])
    /\ \A h \in Range(q) \ Range(qn) :
          Live(h) => ServedNow(h, TRUE) \/ ServedNow(h, FALSE)

\* C31: among the waiters of a queue of a channel, a value is handed to (taken
\* from) the one that registered earliest among those still live; waiters
\* removed without being served are aborted ones, and no live waiter is passed
\* over for a later one.
C31_HandoffInRegistrationOrder ==
    [][ \A c \in Chans :
          /\ FifoStep(hanged_recv_tasks[c], hanged_recv_tasks'[c])
          /\ FifoStep(hanged_send_tasks[c], hanged_send_tasks'[c]) ]_vars

\* A run of C31: two recv_sched of w2 were registered, and a sender has handed
\* its value to the first, leaving the second in the queue.
C31_Witness ==
    /\ Invoked("w2", 1, TRUE) = 1 /\ Invoked("w2", 2, TRUE) = 0
    /\ call["w2"].name = "recv_sched"
    /\ Len(hanged_recv_tasks["c1"]) = 1
    /\ hanged_recv_tasks["c1"][1].n = 2

\* C32: no call is ever in the drain loop of try_recv_ with a sender at the
\* head of the queue that the loop has already moved into the buffer and that
\* it will find live again: the loop, and with it the call, comes to an end.
C32_CallsLeaveTheirLoops ==
    \A t \in Workers : pc[t] # "spin"

\* C33: while the select is suspended, no step of a size() call changes the
\* commit gate of the select or its completion signal.
C33_SizeOnlyObserves ==
    [][ \A t \in Workers :
          (/\ call[t].name = "size" /\ pc[t] \in {"size_r", "size_s"}
           /\ pc[SelThread] = "sel_wait"
           /\ (pc'[t] # pc[t] \/ na'[t] # na[t]))
              => /\ is_done' = is_done
                 /\ done'[SelThread] = done[SelThread] ]_vars

\* The values that were received or are in a buffer.
Transferred == Range(recvd) \cup UNION {Range(buffer_[c]) : c \in Chans}

\* C34: a receive that finds at the head of the send queue a record of the
\* select (registered through send_sched_) whose need_abort returned true
\* removes the record and stays in its loop, without writing to the buffer,
\* receiving a value or invoking a callback; and once the select is suspended
\* or has returned, the value of one of its send operations is in a buffer or
\* received only if the callback of that operation was invoked with ok = true.
C34_AbortedSendSchedLeavesNoTrace ==
    /\ [](pc[SelThread] \in {"sel_wait", "returned"} =>
            \A i \in 1..Len(ops) :
                (ops[i].kind = "send" /\ ops[i].val \in Transferred)
                    => Invoked(SelThread, i, TRUE) >= 1)
    /\ [][ \A t \in Threads :
            LET c == call[t].chan
                q == hanged_send_tasks[c]
            IN
            (/\ pc[t] \in {"drain", "handoff"} /\ q # <<>>
             /\ Head(q).kind = "select" /\ na[t] = "abort"
             /\ na'[t] # na[t])
                => /\ hanged_send_tasks'[c] = Tail(q)
                   /\ UNCHANGED <<buffer_, recvd, calls, value, pc, ret>> ]_vars

\* A run of C34: the select registered two sends on a zero-capacity channel; a
\* recv took the value of the first, and a second recv found the record of
\* the other aborted, dropped it and found nothing to receive.
C34_Witness ==
    /\ Len(ops) = 2 /\ ops[1].kind = "send" /\ ops[2].kind = "send"
    /\ Cap["c2"] = 0
    /\ recvd = <<MaxVal + 1>>
    /\ Invoked(SelThread, 1, TRUE) = 1 /\ OpInvoked(2) = 0
    /\ seq["w1"] = 2 /\ call["w1"].name = "recv" /\ call["w1"].chan = "c2"
    /\ pc["w1"] = "recv_ret" /\ ret["w1"] = "false"
    /\ hanged_send_tasks["c2"] = <<>>

\* C35: a select without fallback of a receive and a send on the same
\* zero-capacity channel, as long as no other thread has called anything and its token is not
\* tripped, invokes no callback, does not return, does not hang inside a lock
\* and does not end the process.
C35_SelectDoesNotMeetItself ==
    (/\ Len(ops) = 2 /\ ops[1].kind = "recv" /\ ops[2].kind = "send"
     /\ ops[1].chan = ops[2].chan /\ Cap[ops[1].chan] = 0
     /\ ~fallback
     /\ \A t \in Workers : seq[t] = 0
     /\ ~stop_requested[SelThread])
        => /\ SelectInvocations = 0
           /\ pc[SelThread] \notin {"stuck", "returned"}
           /\ ~aborted

\* C36: in the greedy pass of select, try_execute of an operation whose channel
\* is closed gets closed from try_recv / try_send without touching the buffer,
\* invokes the callback of that operation with ok = false as the only callback
\* of the select and makes select return without registering anything; after
\* such a return no later operation was attempted or invoked.
C36_ClosedSettlesGreedyPass ==
    /\ []((GreedyReturned /\ Invoked(SelThread, op_i, FALSE) = 1) =>
            \A j \in (op_i + 1)..Len(ops) : j \notin attempted /\ OpInvoked(j) = 0)
    /\ [][
            /\ (pc[SelThread] = "greedy" /\ is_closed_[ops[op_i].chan]
                /\ pc'[SelThread] # "greedy")
              => /\ pc'[SelThread] \in {"recv_ret", "send_ret"}
                 /\ ret'[SelThread] = "closed"
                 /\ UNCHANGED <<buffer_, recvd, calls>>
            /\ (pc[SelThread] \in {"recv_ret", "send_ret"}
                /\ call[SelThread].name \in {"try_recv", "try_send"}
                /\ ret[SelThread] = "closed" /\ pc'[SelThread] # pc[SelThread])
              => /\ pc'[SelThread] = "try_execute" /\ ec'[SelThread] = "closed"
                 /\ UNCHANGED <<buffer_, recvd, calls>>
            /\ (pc[SelThread] = "try_execute" /\ ec[SelThread] = "closed"
                /\ pc'[SelThread] # pc[SelThread])
              => /\ pc'[SelThread] = "returned"
                 /\ SelectInvocations = 0
                 /\ calls' = Invoke(SelThread, op_i, FALSE)
                 /\ done'[SelThread] = "free" /\ ~SelectRegistered
                 /\ UNCHANGED <<attempted, op_i>> ]_vars

\* A run of C36: the channel of the first operation is closed, the second
\* operation, a receive, has a value waiting in the buffer of its open channel;
\* select has returned from the greedy pass after the first callback got
\* ok = false, and the second operation was not attempted.
C36_Witness ==
    /\ GreedyReturned
    /\ op_i = 1 /\ attempted = {1}
    /\ Invoked(SelThread, 1, FALSE) = 1 /\ is_closed_[ops[1].chan]
    /\ ops[2].kind = "recv" /\ ~is_closed_[ops[2].chan]
    /\ buffer_[ops[2].chan] # <<>>

====
